---------------------------- MODULE Spec2Model ----------------------------
(***************************************************************************)
(* Ingestion / synchronisation core of the historical research platform:   *)
(* the four chunkers, the identity schemes and uploads of the four         *)
(* pipeline variants, and the operator surface of the History of Rome      *)
(* processor.                                                              *)
(*                                                                         *)
(* Variants:  "rome"  = data_processing/aws_history_rome_processor.py      *)
(*            "three" = data_processing/aws_transcript_processor_3files.py *)
(*            "rev"   = data_processing/process_revolutions.py             *)
(*            "opt"   = data_processing/process_revolutions_optimized.py   *)
(*                                                                         *)
(* A Python str is modelled sparsely: [len, ch] where ch maps the indices  *)
(* (0-based) that hold something other than a letter to their character;   *)
(* every other index below len holds the letter "a".  A slice text[s:e]    *)
(* is the pair <<s, e>>.                                                   *)
(***************************************************************************)
EXTENDS Integers, Sequences, FiniteSets, TLC

VARIABLES
    \* ---- chunker loop (one call of a chunker) ----
    variant,      \* which file's chunker runs
    text,         \* the text argument
    start,        \* loop variable start
    chunk_index,  \* loop variable chunk_index / chunk_count
    chunks,       \* the list being built
    pc,           \* "loop" while inside the while loop, "done" after return
    windows,      \* history: the [start, end) of every window taken so far
    iters         \* history: number of loop iterations executed

VARIABLES
    \* ---- ingestion runs ----
    store,        \* the collection: a set of points [id, vector, payload], one per id
    clock,        \* time.time() in microseconds since the first run began
    docs,         \* the document each metadata entry's google_doc_id holds
    run,          \* number of pipeline runs started
    epi,          \* index into the metadata list of the episode handled next
    stats,        \* stats dict of the current run
    ppc,          \* "idle", "running", or "hung" (a chunker that never returns)
    force,        \* force_reprocess of the current History of Rome run
    processed_episodes,  \* self.processed_episodes of the optimized processor
    failures,     \* history: failures of external calls injected so far
    issued,       \* history: (logical segment, point id) of every upserted point
    last,         \* history: outcome of the episode or command just finished
    runLog        \* history: one entry per invocation of the History of Rome main()

chunkVars == <<variant, text, start, chunk_index, chunks, pc, windows, iters>>

runVars == <<store, clock, docs, run, epi, stats, ppc, force, processed_episodes,
             failures, issued, last, runLog>>

vars == <<variant, text, start, chunk_index, chunks, pc, windows, iters,
          store, clock, docs, run, epi, stats, ppc, force, processed_episodes,
          failures, issued, last, runLog>>

Min(a, b) == IF a < b THEN a ELSE b
Max(a, b) == IF a > b THEN a ELSE b

(***************************************************************************)
(* Program constants                                                       *)
(***************************************************************************)
RomeChunkSize == 1000
RomeChunkOverlap == 200
ThreeChunkSize == 800
ThreeChunkOverlap == 150
ThreeLookback == 150
max_chunks == 50
RevChunkSize == 1000
RevChunkOverlap == 200
OptChunkSize == 800
OptChunkOverlap == 100

Variants == {"rome", "three", "rev", "opt"}

chunk_size(v) ==
    CASE v = "rome" -> RomeChunkSize
      [] v = "three" -> ThreeChunkSize
      [] v = "rev" -> RevChunkSize
      [] v = "opt" -> OptChunkSize

chunk_overlap(v) ==
    CASE v = "rome" -> RomeChunkOverlap
      [] v = "three" -> ThreeChunkOverlap
      [] v = "rev" -> RevChunkOverlap
      [] v = "opt" -> OptChunkOverlap

(***************************************************************************)
(* Python str primitives on the sparse representation                      *)
(***************************************************************************)
CharAt(t, i) == IF i \in DOMAIN t.ch THEN t.ch[i] ELSE "a"

\* str.isspace() for the characters that occur
IsSpace(c) == c \in {" ", "\n", "\t"}

\* text[i : i + len(sub)] == sub
Matches(t, sub, i) ==
    /\ i >= 0
    /\ i + Len(sub) <= t.len
    /\ \A k \in 1..Len(sub) : CharAt(t, i + k - 1) = sub[k]

\* text.rfind(sub, lo, hi): the highest index i with lo <= i and
\* i + len(sub) <= hi where sub occurs, or -1
\* (every sub searched for begins with a non-letter, so it can only occur at
\* an index of ch)
rfind(t, sub, lo, hi) ==
    LET hits == {i \in DOMAIN t.ch :
                    lo <= i /\ i <= hi - Len(sub) /\ Matches(t, sub, i)}
    IN  IF hits = {} THEN -1 ELSE CHOOSE i \in hits : \A j \in hits : j <= i

\* text[s:e].lstrip(): the index of the first character kept (e when none is)
LStrip(t, s, e) ==
    IF s < e /\ ~IsSpace(CharAt(t, s)) THEN s
    ELSE CHOOSE i \in s..e :
            /\ i = e \/ ~IsSpace(CharAt(t, i))
            /\ \A j \in s..(i - 1) : IsSpace(CharAt(t, j))

\* text[s:e].rstrip(): the index after the last character kept (s when none is)
RStrip(t, s, e) ==
    IF s < e /\ ~IsSpace(CharAt(t, e - 1)) THEN e
    ELSE CHOOSE i \in s..e :
            /\ i = s \/ ~IsSpace(CharAt(t, i - 1))
            /\ \A j \in i..(e - 1) : IsSpace(CharAt(t, j))

\* text[s:e].strip() as the slice that remains; s = e when nothing remains
Strip(t, s, e) ==
    LET s1 == LStrip(t, s, e)
    IN  <<s1, RStrip(t, s1, e)>>

SliceLen(sp) == sp[2] - sp[1]

\* The delimiters, as character sequences
PeriodSpace == <<".", " ">>
BangSpace == <<"!", " ">>
QuestionSpace == <<"?", " ">>
BlankLine == <<"\n", "\n">>

Delimiters == <<PeriodSpace, BangSpace, QuestionSpace, BlankLine>>

\* One entry of the list a chunker returns; content is the slice of text
Chunk(content, index, total) ==
    [content |-> content, chunk_index |-> index, total_chunks |-> total,
     content_length |-> SliceLen(content)]

\* mutant: the update loop left out, every chunk keeps the 0 it was made with
Backfill_Stale(cs) == cs

\* for chunk in chunks: chunk['total_chunks'] = len(chunks)
Backfill(cs) == [i \in 1..Len(cs) |-> [cs[i] EXCEPT !.total_chunks = Len(cs)]]

\* mutant: the single chunk trimmed as the chunks of the loop are
SingleChunk_Stripped(t) == <<Chunk(Strip(t, 0, t.len), 0, 1)>>

\* if text_length <= self.chunk_size: the single chunk holding the text as it is
SingleChunk(t) == <<Chunk(<<0, t.len>>, 0, 1)>>

(***************************************************************************)
(* History of Rome: create_text_chunks                                     *)
(***************************************************************************)
\* mutant: the window is never cut at a delimiter
Rome_WindowEnd_NoSnap(t, s) == Min(s + RomeChunkSize, t.len)

\* end = min(start + chunk_size, text_length), moved to just after the last
\* delimiter found in [search_start, end) by the first delimiter that occurs
Rome_WindowEnd(t, s) ==
    LET end == Min(s + RomeChunkSize, t.len)
    IN  IF end < t.len
        THEN LET search_start == Max(end - RomeChunkOverlap, s + RomeChunkSize \div 2)
                 found == {k \in 1..Len(Delimiters) :
                              rfind(t, Delimiters[k], search_start, end) # -1}
             IN  IF found = {} THEN end
                 ELSE LET k == CHOOSE k \in found : \A j \in found : k <= j
                      IN  rfind(t, Delimiters[k], search_start, end) + Len(Delimiters[k])
        ELSE end

\* mutant: the overlap added instead of subtracted
Rome_NextStart_SignSlip(s, end) == Max(end + RomeChunkOverlap, s + 1)

\* start = max(end - self.chunk_overlap, start + 1)
Rome_NextStart(s, end) == Max(end - RomeChunkOverlap, s + 1)

Rome_LoopCond(t, s) == s < t.len

(***************************************************************************)
(* 3-file processor: create_text_chunks                                    *)
(***************************************************************************)
Three_WindowEnd(t, s) ==
    LET end == Min(s + ThreeChunkSize, t.len)
    IN  IF end < t.len
        THEN LET search_start == Max(end - ThreeLookback, s + ThreeChunkSize \div 2)
                 found == {k \in 1..Len(Delimiters) :
                              rfind(t, Delimiters[k], search_start, end) > search_start}
             IN  IF found = {} THEN end
                 ELSE LET k == CHOOSE k \in found : \A j \in found : k <= j
                      IN  rfind(t, Delimiters[k], search_start, end) + Len(Delimiters[k])
        ELSE end

\* mutant: the forward-progress branch left out
Three_NextStart_NoForce(s, end) == end - ThreeChunkOverlap

Three_NextStart(s, end) ==
    LET new_start == end - ThreeChunkOverlap
    IN  IF new_start <= s THEN s + ThreeChunkSize \div 2 ELSE new_start

Three_LoopCond(t, s, ci) == s < t.len /\ ci < max_chunks

(***************************************************************************)
(* process_revolutions.py: chunk_text                                      *)
(***************************************************************************)
Rev_WindowEnd(t, s) ==
    LET end == Min(s + RevChunkSize, t.len)
    IN  IF end < t.len
        THEN LET search_start == Max(end - RevChunkOverlap, s + RevChunkSize \div 2)
                 pos1 == rfind(t, PeriodSpace, search_start, end)
                 se1 == IF pos1 > -1 THEN pos1 + Len(PeriodSpace) ELSE -1
                 pos2 == rfind(t, BangSpace, search_start, end)
                 se2 == IF pos2 > se1 THEN pos2 + Len(BangSpace) ELSE se1
                 pos3 == rfind(t, QuestionSpace, search_start, end)
                 sentence_end == IF pos3 > se2 THEN pos3 + Len(QuestionSpace) ELSE se2
             IN  IF sentence_end > 0 THEN sentence_end ELSE end
        ELSE end

Rev_NextStart(s, end) == end - RevChunkOverlap

Rev_LoopCond(t, s) == s < t.len

(***************************************************************************)
(* process_revolutions_optimized.py: chunk_text_efficiently                *)
(***************************************************************************)
Opt_WindowEnd(t, s) ==
    LET end == Min(s + OptChunkSize, t.len)
    IN  IF end < t.len
        THEN LET search_start == Max(end - OptChunkOverlap, s + OptChunkSize \div 2)
                 found == {k \in 1..3 :
                              rfind(t, Delimiters[k], search_start, end) > 0}
             IN  IF found = {} THEN end
                 ELSE LET k == CHOOSE k \in found : \A j \in found : k <= j
                      IN  rfind(t, Delimiters[k], search_start, end) + Len(Delimiters[k])
        ELSE end

Opt_NextStart(s, end) == end - OptChunkOverlap

Opt_LoopCond(t, s) == s < t.len

(***************************************************************************)
(* The texts the chunkers are run on                                       *)
(***************************************************************************)
\* at most this many delimiters are planted in an enumerated text
MaxDelims == 2
\* iterations explored of a loop that does not end by itself
MaxIter == 6

Plain(n) == [len |-> n, ch |-> <<>>]

\* delimiter sub written at index p
Place(sub, p) == [i \in p..(p + Len(sub) - 1) |-> sub[i - p + 1]]

RECURSIVE PlaceAll(_)
PlaceAll(S) ==
    IF S = {} THEN <<>>
    ELSE LET x == CHOOSE x \in S : TRUE
         IN  Place(Delimiters[x[2]], x[1]) @@ PlaceAll(S \ {x})

\* run of n blanks starting at index p
Blanks(p, n) == [i \in p..(p + n - 1) |-> " "]

\* Indices around the first window's search range [search_start, end):
\* just below it, its first index, inside it, its last index for a
\* two-character delimiter
ProbePositions(v) ==
    LET end == chunk_size(v)
        search_start == Max(end - (IF v = "three" THEN ThreeLookback ELSE chunk_overlap(v)),
                            chunk_size(v) \div 2)
    IN  {search_start - 1, search_start, search_start + 50, end - 2}

Plantings(v) ==
    {S \in SUBSET (ProbePositions(v) \X (1..Len(Delimiters))) :
        /\ Cardinality(S) <= MaxDelims
        /\ \A x, y \in S : x # y => x[1] # y[1]}

EnumeratedTexts(v) ==
    {[len |-> n, ch |-> PlaceAll(S)] :
        n \in {chunk_size(v) + 1, 2 * chunk_size(v) + 400}, S \in Plantings(v)}

\* a text of 2,400 characters with a period-space at character 1050
PeriodAt1050 == [len |-> 2400, ch |-> Place(PeriodSpace, 1050)]
\* the same with the period-space inside the last 200 characters of the
\* first window
PeriodAt850 == [len |-> 2400, ch |-> Place(PeriodSpace, 850)]

\* a text shorter than every chunk_size that begins and ends with blanks
BlankEnded == [len |-> 300, ch |-> Blanks(0, 5) @@ Blanks(290, 10)]

\* texts at most chunk_size long, a text long enough to reach max_chunks,
\* texts holding a run of blanks wider than a window, and the two texts
\* with one period-space
SpecialTexts(v) ==
    {Plain(0), Plain(1), Plain(chunk_size(v) \div 2), Plain(chunk_size(v)), BlankEnded}
    \cup (IF v \in {"rome", "rev"} THEN {PeriodAt1050, PeriodAt850} ELSE {})
    \cup (IF v = "three"
          THEN {Plain(40000),
                [len |-> 40000, ch |-> Blanks(650, 800)]}
          ELSE {})
    \cup (IF v = "rome"
          THEN {[len |-> 2400, ch |-> Blanks(800, 1200)]}
          ELSE {})

ChunkTexts(v) == EnumeratedTexts(v) \cup SpecialTexts(v)

(***************************************************************************)
(* One call of a chunker, one loop iteration per step                      *)
(***************************************************************************)
ChunkInit ==
    /\ variant \in Variants
    /\ text \in ChunkTexts(variant)
    /\ pc = "call"
    /\ start = 0
    /\ chunk_index = 0
    /\ chunks = <<>>
    /\ windows = <<>>
    /\ iters = 0
    /\ store = {} /\ clock = 0 /\ docs = <<>> /\ run = 0 /\ epi = 0
    /\ stats = <<>> /\ ppc = "idle" /\ force = FALSE /\ processed_episodes = {}
    /\ failures = 0 /\ issued = {} /\ last = <<>> /\ runLog = <<>>

\* entry of the function up to the while loop
ChunkCall ==
    /\ pc = "call"
    /\ IF text.len <= chunk_size(variant)
       THEN /\ chunks' = SingleChunk(text)
            /\ pc' = "done"
       ELSE /\ chunks' = <<>>
            /\ pc' = "loop"
    /\ UNCHANGED <<variant, text, start, chunk_index, windows, iters>>
    /\ UNCHANGED runVars

\* mutant: chunk_index counts the windows, also those discarded as empty
LoopBody_CountsWindows(end, next) ==
    LET chunk_text == Strip(text, start, end)
    IN  /\ IF SliceLen(chunk_text) > 0
           THEN chunks' = Append(chunks, Chunk(chunk_text, chunk_index, 0))
           ELSE UNCHANGED chunks
        /\ chunk_index' = chunk_index + 1
        /\ start' = next
        /\ windows' = Append(windows, <<start, end>>)
        /\ iters' = iters + 1
        /\ UNCHANGED <<variant, text, pc>>
        /\ UNCHANGED runVars

\* the body of the while loop, given the window end and the next start
LoopBody(end, next) ==
    LET chunk_text == Strip(text, start, end)
    IN  /\ IF SliceLen(chunk_text) > 0
           THEN /\ chunks' = Append(chunks, Chunk(chunk_text, chunk_index, 0))
                /\ chunk_index' = chunk_index + 1
           ELSE UNCHANGED <<chunks, chunk_index>>
        /\ start' = next
        /\ windows' = Append(windows, <<start, end>>)
        /\ iters' = iters + 1
        /\ UNCHANGED <<variant, text, pc>>
        /\ UNCHANGED runVars

\* the loop condition is false: backfill total_chunks and return
LoopExit ==
    /\ chunks' = Backfill(chunks)
    /\ pc' = "done"
    /\ UNCHANGED <<variant, text, start, chunk_index, windows, iters>>
    /\ UNCHANGED runVars

\* while start < text_length: ... ; then the backfill and return
Rome_Loop ==
    /\ pc = "loop" /\ variant = "rome"
    /\ IF Rome_LoopCond(text, start)
       THEN LET end == Rome_WindowEnd(text, start)
            IN  LoopBody(end, Rome_NextStart(start, end))
       ELSE LoopExit

\* while start < text_length and chunk_index < max_chunks: ...
Three_Loop ==
    /\ pc = "loop" /\ variant = "three"
    /\ IF Three_LoopCond(text, start, chunk_index)
       THEN LET end == Three_WindowEnd(text, start)
            IN  LoopBody(end, Three_NextStart(start, end))
       ELSE LoopExit

Rev_Loop ==
    /\ pc = "loop" /\ variant = "rev"
    /\ IF Rev_LoopCond(text, start)
       THEN /\ iters < MaxIter
            /\ LET end == Rev_WindowEnd(text, start)
               IN  LoopBody(end, Rev_NextStart(start, end))
       ELSE LoopExit

Opt_Loop ==
    /\ pc = "loop" /\ variant = "opt"
    /\ IF Opt_LoopCond(text, start)
       THEN /\ iters < MaxIter
            /\ LET end == Opt_WindowEnd(text, start)
               IN  LoopBody(end, Opt_NextStart(start, end))
       ELSE LoopExit

ChunkNext ==
    \/ ChunkCall
    \/ Rome_Loop
    \/ Three_Loop
    \/ Rev_Loop
    \/ Opt_Loop

SpecChunk == ChunkInit /\ [][ChunkNext]_vars

(***************************************************************************)
(* Properties of the chunker loops (checked under SpecChunk)               *)
(***************************************************************************)
\* a loop iteration was executed by this step
Iterated == pc = "loop" /\ iters' = iters + 1

\* windows that were empty after trimming and so produced no chunk
Discarded == {i \in 1..Len(windows) :
                 SliceLen(Strip(text, windows[i][1], windows[i][2])) = 0}

\* C21: for every text with len(text) <= chunk_size each of the four
\* chunkers returns exactly one segment, with chunk_index 0, total_chunks 1,
\* content the whole text (untrimmed) and content_length = len(text).
C21_ShortTextIsOneSegment ==
    (pc = "done" /\ text.len <= chunk_size(variant)) =>
        chunks = <<[content |-> <<0, text.len>>, chunk_index |-> 0,
                    total_chunks |-> 1, content_length |-> text.len]>>

\* a chunker has returned for the short text that begins and ends with blanks
C21_Witness ==
    /\ pc = "done" /\ text = BlankEnded /\ variant \in {"three", "opt"}
    /\ Len(chunks) = 1 /\ chunks[1].content_length = BlankEnded.len

\* the indices in [lo, hi) at which delimiter k is read whole
DelimiterAt(t, k, lo, hi) ==
    {i \in lo..(hi - Len(Delimiters[k])) : Matches(t, Delimiters[k], i)}

\* the end the window starting at s is to have in variant v: just after the
\* last occurrence, in the look-back range, of the first delimiter in
\* priority order that occurs there, else s + chunk_size
SnappedEnd(t, s, v) ==
    LET hi == s + chunk_size(v)
        lo == Max(hi - chunk_overlap(v), s + chunk_size(v) \div 2)
        present == {k \in 1..Len(Delimiters) : DelimiterAt(t, k, lo, hi) # {}}
    IN  IF present = {} THEN hi
        ELSE LET k == CHOOSE k \in present : \A j \in present : k <= j
                 at == DelimiterAt(t, k, lo, hi)
             IN  (CHOOSE i \in at : \A j \in at : j <= i) + Len(Delimiters[k])

\* C23: in the History of Rome and 3-file create_text_chunks, for every
\* window whose end start + chunk_size is before the end of the text, the
\* segment end is start + chunk_size when no delimiter is in
\* [max(start + chunk_size - chunk_overlap, start + chunk_size/2),
\* start + chunk_size), and else the position right after the last
\* occurrence there of the first of '. ', '! ', '? ', blank line that occurs
\* there, a delimiter at the first index of the range included.
C23_EndSnapsToDelimiterInRange ==
    [][(/\ Iterated
        /\ variant \in {"rome", "three"}
        /\ start + chunk_size(variant) < text.len) =>
            windows'[Len(windows')] = <<start, SnappedEnd(text, start, variant)>>]_vars

\* C24: in the History of Rome and 3-file create_text_chunks the segment
\* whose span reaches the end of the text is the last one emitted, and no
\* segment lies entirely inside the span of the segment before it.
C24_EndReachingSegmentIsLast ==
    variant \in {"rome", "three"} =>
        \A k \in 1..Len(chunks) :
            /\ chunks[k].content[2] = text.len => k = Len(chunks)
            /\ k > 1 => ~(/\ chunks[k - 1].content[1] <= chunks[k].content[1]
                          /\ chunks[k].content[2] <= chunks[k - 1].content[2])

\* C5: in chunk_text, chunk_text_efficiently and the History of Rome
\* create_text_chunks, start strictly increases on every loop iteration
\* (until start >= len(text)), so the loop terminates.
C5_StartStrictlyIncreases ==
    [][(Iterated /\ variant \in {"rev", "opt", "rome"}) => start' > start]_vars

\* C6 as stated: the 3-file create_text_chunks runs its loop at most
\* max_chunks times.
C6_AtMostMaxChunksIterations ==
    variant = "three" => iters <= max_chunks

\* C6 amended: in the 3-file create_text_chunks every iteration strictly
\* increases start while start < len(text) holds inside the loop, so the loop
\* ends; it emits at most max_chunks chunks, and runs at most max_chunks
\* iterations plus one for each window discarded as empty after trimming.
C6_TerminatesWithinCap ==
    /\ [][(Iterated /\ variant = "three") => (start < text.len /\ start' > start)]_vars
    /\ [](variant = "three" =>
            /\ Len(chunks) <= max_chunks
            /\ iters <= max_chunks + Cardinality(Discarded))

\* the 3-file chunker has returned from a text that needed more windows
\* than max_chunks and in which a window was discarded
C6_Witness ==
    /\ variant = "three" /\ pc = "done"
    /\ Len(chunks) = max_chunks
    /\ Discarded # {}
    /\ iters > max_chunks

\* index i of the text lies in the content of some returned chunk
InSomeContent(i) ==
    \E k \in 1..Len(chunks) : chunks[k].content[1] <= i /\ i < chunks[k].content[2]

\* C8: for a text longer than chunk_size the windows of the History of Rome
\* create_text_chunks cover every index: the first starts at 0, each starts
\* at or before the end of the previous one, the last ends at len(text); and
\* every character that is in no chunk's content is whitespace.
C8_WindowsCoverText ==
    (variant = "rome" /\ pc = "done" /\ text.len > RomeChunkSize) =>
        /\ Len(windows) >= 1
        /\ windows[1][1] = 0
        /\ \A i \in 1..(Len(windows) - 1) :
              /\ windows[i + 1][1] <= windows[i][2]
              /\ windows[i][1] < windows[i][2]
        /\ windows[Len(windows)][2] = text.len
        /\ \A i \in 0..(text.len - 1) :
              IsSpace(CharAt(text, i)) \/ InSomeContent(i)

\* the History of Rome chunker has returned from a text of several windows,
\* one of which was cut at a delimiter and trimmed
C8_Witness ==
    /\ variant = "rome" /\ pc = "done" /\ text.len > RomeChunkSize
    /\ Len(windows) > 2
    /\ windows[1][2] < RomeChunkSize
    /\ chunks[1].content[2] < windows[1][2]

\* C18: every segment returned by the 3-file and the History of Rome
\* create_text_chunks carries a total_chunks equal to the number of
\* segments in the returned list, on the single-segment return and after
\* the loop.
C18_TotalChunksIsListLength ==
    (variant \in {"three", "rome"} /\ pc = "done") =>
        /\ Len(chunks) >= 1
        /\ \A k \in 1..Len(chunks) : chunks[k].total_chunks = Len(chunks)

\* the History of Rome chunker has returned several segments from a text
\* in which a window was discarded, so fewer segments than windows
C18_Witness ==
    /\ variant = "rome" /\ pc = "done"
    /\ Len(chunks) > 1
    /\ Len(chunks) < Len(windows)
    /\ chunks[Len(chunks)].total_chunks = Len(chunks)

\* C19: the segments returned by the 3-file and the History of Rome
\* create_text_chunks have chunk_index 0, 1, ..., n-1 in list order, also
\* when a window that is empty after trimming was discarded.
C19_IndexesAreContiguous ==
    (variant \in {"three", "rome"} /\ pc = "done") =>
        \A k \in 1..Len(chunks) : chunks[k].chunk_index = k - 1

\* the 3-file chunker has returned after discarding a window that lay
\* between two kept ones
C19_Witness ==
    /\ variant = "three" /\ pc = "done"
    /\ \E i \in Discarded : 1 < i /\ i < Len(windows)
    /\ Len(chunks) >= 2
    /\ chunks[Len(chunks)].content[1] > windows[CHOOSE i \in Discarded : TRUE][2]

\* the first segment has been appended by the History of Rome
\* create_text_chunks or by chunk_text
FirstSegmentOf(t) ==
    variant \in {"rome", "rev"} /\ text = t /\ Len(chunks) >= 1

\* C20 as stated: for the text of 2,400 characters with a period-space at
\* character 1050 (chunk_size 1000, chunk_overlap 200) the first segment
\* ends at or after the delimiter near 1050, not at exactly 1000.
C20_FirstSegmentReachesDelimiter ==
    FirstSegmentOf(PeriodAt1050) =>
        /\ chunks[1].content[2] >= 1050
        /\ chunks[1].content[2] # 1000

\* C20 amended: for that text the first segment is text[0:1000], ending at
\* exactly 1000, because a delimiter is searched only in [800, 1000), before
\* the window end; with the period-space at character 850 the first window
\* ends right after it, at 852, and the first segment at the period (851).
C20_FirstSegmentEndsAtWindow ==
    /\ FirstSegmentOf(PeriodAt1050) =>
          /\ windows[1] = <<0, 1000>>
          /\ chunks[1].content = <<0, 1000>>
    /\ FirstSegmentOf(PeriodAt850) =>
          /\ windows[1] = <<0, 852>>
          /\ chunks[1].content = <<0, 851>>

\* the History of Rome chunker has returned from the text with the
\* period-space at 1050, the first of its segments ending at 1000
C20_Witness ==
    /\ variant = "rome" /\ pc = "done" /\ text = PeriodAt1050
    /\ chunks[1].content[2] = 1000
    /\ Len(chunks) > 2

(***************************************************************************)
(* The chunkers as functions of the text (what a call returns)             *)
(***************************************************************************)
\* one iteration of the while loop on the loop variables st
Rome_Iteration(t, st) ==
    LET end == Rome_WindowEnd(t, st.start)
        chunk_text == Strip(t, st.start, end)
        keep == SliceLen(chunk_text) > 0
    IN  [start |-> Rome_NextStart(st.start, end),
         chunk_index |-> IF keep THEN st.chunk_index + 1 ELSE st.chunk_index,
         chunks |-> IF keep THEN Append(st.chunks, Chunk(chunk_text, st.chunk_index, 0))
                    ELSE st.chunks]

\* up to k iterations, stopping when the loop condition fails (evaluated by
\* halving k, which keeps the nesting of the evaluation shallow)
RECURSIVE Rome_Iterate(_, _, _)
Rome_Iterate(t, st, k) ==
    IF ~Rome_LoopCond(t, st.start) THEN st
    ELSE IF k <= 1 THEN Rome_Iteration(t, st)
    ELSE Rome_Iterate(t, Rome_Iterate(t, st, k \div 2), k - (k \div 2))

\* while start < text_length: ...
RECURSIVE Rome_While(_, _)
Rome_While(t, st) ==
    IF ~Rome_LoopCond(t, st.start) THEN st
    ELSE Rome_While(t, Rome_Iterate(t, st, t.len))

Rome_create_text_chunks(t) ==
    IF t.len <= RomeChunkSize THEN SingleChunk(t)
    ELSE Backfill(Rome_While(t, [start |-> 0, chunk_index |-> 0, chunks |-> <<>>]).chunks)

\* the chunks returned and the value of start when the loop was left
RECURSIVE Three_Run(_, _, _, _)
Three_Run(t, s, ci, acc) ==
    IF Three_LoopCond(t, s, ci)
    THEN LET end == Three_WindowEnd(t, s)
             chunk_text == Strip(t, s, end)
             keep == SliceLen(chunk_text) > 0
         IN  Three_Run(t, Three_NextStart(s, end),
                       IF keep THEN ci + 1 ELSE ci,
                       IF keep THEN Append(acc, Chunk(chunk_text, ci, 0)) ELSE acc)
    ELSE [chunks |-> Backfill(acc), start |-> s]

Three_create_text_chunks(t) ==
    IF t.len <= ThreeChunkSize THEN SingleChunk(t) ELSE Three_Run(t, 0, 0, <<>>).chunks

\* the loop was left by chunk_index reaching max_chunks with text remaining
Three_Truncated(t) ==
    t.len > ThreeChunkSize /\ Three_Run(t, 0, 0, <<>>).start < t.len

\* Whether the while loop of chunk_text is ever left: start' depends on start
\* alone, so an iteration that does not increase start repeats for ever.
RECURSIVE Rev_LoopEnds(_, _)
Rev_LoopEnds(t, s) ==
    IF Rev_LoopCond(t, s)
    THEN LET next == Rev_NextStart(s, Rev_WindowEnd(t, s))
         IN  IF next <= s THEN FALSE ELSE Rev_LoopEnds(t, next)
    ELSE TRUE

Rev_Returns(t) == t.len <= RevChunkSize \/ Rev_LoopEnds(t, 0)

RECURSIVE Rev_Run(_, _, _, _)
Rev_Run(t, s, ci, acc) ==
    IF Rev_LoopCond(t, s)
    THEN LET end == Rev_WindowEnd(t, s)
             chunk_text == Strip(t, s, end)
             keep == SliceLen(chunk_text) > 0
         IN  Rev_Run(t, Rev_NextStart(s, end),
                     IF keep THEN ci + 1 ELSE ci,
                     IF keep THEN Append(acc, Chunk(chunk_text, ci, 0)) ELSE acc)
    ELSE Backfill(acc)

\* defined when Rev_Returns(t)
Rev_chunk_text(t) ==
    IF t.len <= RevChunkSize THEN SingleChunk(t) ELSE Rev_Run(t, 0, 0, <<>>)

RECURSIVE Opt_LoopEnds(_, _)
Opt_LoopEnds(t, s) ==
    IF Opt_LoopCond(t, s)
    THEN LET next == Opt_NextStart(s, Opt_WindowEnd(t, s))
         IN  IF next <= s THEN FALSE ELSE Opt_LoopEnds(t, next)
    ELSE TRUE

Opt_Returns(t) == t.len <= OptChunkSize \/ Opt_LoopEnds(t, 0)

RECURSIVE Opt_Run(_, _, _, _)
Opt_Run(t, s, ci, acc) ==
    IF Opt_LoopCond(t, s)
    THEN LET end == Opt_WindowEnd(t, s)
             chunk_text == Strip(t, s, end)
             keep == SliceLen(chunk_text) > 0
         IN  Opt_Run(t, Opt_NextStart(s, end),
                     IF keep THEN ci + 1 ELSE ci,
                     IF keep THEN Append(acc, Chunk(chunk_text, ci, 0)) ELSE acc)
    ELSE Backfill(acc)

\* defined when Opt_Returns(t)
Opt_chunk_text_efficiently(t) ==
    IF t.len <= OptChunkSize THEN SingleChunk(t) ELSE Opt_Run(t, 0, 0, <<>>)

\* The step-by-step loop and the function agree on what is returned
ChunkLoopAgrees ==
    pc = "done" =>
        chunks = CASE variant = "rome" -> Rome_create_text_chunks(text)
                   [] variant = "three" -> Three_create_text_chunks(text)
                   [] variant = "rev" -> Rev_chunk_text(text)
                   [] variant = "opt" -> Opt_chunk_text_efficiently(text)

(***************************************************************************)
(* Header stripping                                                        *)
(***************************************************************************)
HeaderDelimiter == <<"-", "-", "-">>

\* text.find(sub, lo): the lowest index >= lo where sub occurs, or -1
\* (sub begins with a non-letter, so it can only occur at an index of ch)
find(t, sub, lo) ==
    LET hits == {i \in DOMAIN t.ch :
                    lo <= i /\ i <= t.len - Len(sub) /\ Matches(t, sub, i)}
    IN  IF hits = {} THEN -1 ELSE CHOOSE i \in hits : \A j \in hits : i <= j

\* the str that the slice sp of t is
SubText(t, sp) ==
    [len |-> SliceLen(sp),
     ch |-> [i \in {j - sp[1] : j \in {k \in DOMAIN t.ch : sp[1] <= k /\ k < sp[2]}}
                |-> t.ch[i + sp[1]]]]

\* parts = full_content.split('---'); '---'.join(parts[2:]).strip() when
\* there are at least three parts, else full_content
extract_transcript_text(full_content) ==
    LET first == find(full_content, HeaderDelimiter, 0)
        second == IF first = -1 THEN -1
                  ELSE find(full_content, HeaderDelimiter, first + Len(HeaderDelimiter))
    IN  IF second # -1
        THEN SubText(full_content,
                     Strip(full_content, second + Len(HeaderDelimiter), full_content.len))
        ELSE full_content

\* the positions at which str.split(sep) cuts t from index lo on: each
\* occurrence found searching on from the end of the one before
RECURSIVE Cuts(_, _, _)
Cuts(t, sep, lo) ==
    LET i == find(t, sep, lo)
    IN  IF i = -1 THEN <<>> ELSE <<i>> \o Cuts(t, sep, i + Len(sep))

\* t.split(sep): the list of parts, each the str between two cuts
split(t, sep) ==
    LET cuts == Cuts(t, sep, 0)
    IN  [k \in 1..(Len(cuts) + 1) |->
            SubText(t, <<IF k = 1 THEN 0 ELSE cuts[k - 1] + Len(sep),
                         IF k = Len(cuts) + 1 THEN t.len ELSE cuts[k]>>)]

\* a + b
Concat(a, b) ==
    [len |-> a.len + b.len,
     ch |-> [i \in DOMAIN a.ch \cup {j + a.len : j \in DOMAIN b.ch} |->
                IF i \in DOMAIN a.ch THEN a.ch[i] ELSE b.ch[i - a.len]]]

\* mutant: the parts joined with nothing between them
RECURSIVE join_NoSeparator(_, _)
join_NoSeparator(sep, parts) ==
    IF Len(parts) = 0 THEN [len |-> 0, ch |-> <<>>]
    ELSE IF Len(parts) = 1 THEN parts[1]
    ELSE Concat(parts[1], join_NoSeparator(sep, Tail(parts)))

\* sep.join(parts)
RECURSIVE join(_, _)
join(sep, parts) ==
    IF Len(parts) = 0 THEN [len |-> 0, ch |-> <<>>]
    ELSE IF Len(parts) = 1 THEN parts[1]
    ELSE Concat(Concat(parts[1], [len |-> Len(sep), ch |-> Place(sep, 0)]),
                join(sep, Tail(parts)))

\* process_revolutions.py, the same statements computed part by part:
\* parts = full_content.split('---')
\* if len(parts) >= 3: transcript = '---'.join(parts[2:]).strip()
\* else: transcript = full_content
extract_transcript_content(full_content) ==
    LET parts == split(full_content, HeaderDelimiter)
    IN  IF Len(parts) >= 3
        THEN LET joined == join(HeaderDelimiter, SubSeq(parts, 3, Len(parts)))
             IN  SubText(joined, Strip(joined, 0, joined.len))
        ELSE full_content

(***************************************************************************)
(* Header stripping applied to documents with zero to four delimiters      *)
(***************************************************************************)
\* where '---' is written in a document: at its start, right after that
\* one, overlapping that one by two characters, and further on
DelimiterPositions == {0, 3, 4, 12, 20, 30}

\* runs of blanks: none, around the text that follows index 23, at the end
BlankRuns == {<<>>, Blanks(23, 3) @@ Blanks(37, 3), Blanks(33, 7)}

HeaderDocuments ==
    {[len |-> 40,
      ch |-> blanks @@ [i \in UNION {p..(p + Len(HeaderDelimiter) - 1) : p \in P} |-> "-"]] :
        P \in SUBSET DelimiterPositions, blanks \in BlankRuns}

HeaderInit ==
    /\ variant \in {"rome", "rev"}
    /\ \E document \in HeaderDocuments : docs = <<document>>
    /\ text = Plain(0)
    /\ pc = "call"
    /\ start = 0 /\ chunk_index = 0 /\ chunks = <<>> /\ windows = <<>> /\ iters = 0
    /\ store = {} /\ clock = 0 /\ run = 0 /\ epi = 0
    /\ stats = <<>> /\ ppc = "idle" /\ force = FALSE /\ processed_episodes = {}
    /\ failures = 0 /\ issued = {} /\ last = <<>> /\ runLog = <<>>

\* transcript = self.extract_transcript_text(content)
Rome_Extract ==
    /\ pc = "call" /\ variant = "rome"
    /\ text' = extract_transcript_text(docs[1])
    /\ pc' = "done"
    /\ UNCHANGED <<variant, start, chunk_index, chunks, windows, iters>>
    /\ UNCHANGED runVars

\* transcript = self.extract_transcript_content(content)
Rev_Extract ==
    /\ pc = "call" /\ variant = "rev"
    /\ text' = extract_transcript_content(docs[1])
    /\ pc' = "done"
    /\ UNCHANGED <<variant, start, chunk_index, chunks, windows, iters>>
    /\ UNCHANGED runVars

HeaderNext ==
    \/ Rome_Extract
    \/ Rev_Extract

SpecHeader == HeaderInit /\ [][HeaderNext]_vars

\* a and b are the same str
SameText(a, b) ==
    /\ a.len = b.len
    /\ DOMAIN a.ch = DOMAIN b.ch
    /\ \A i \in DOMAIN a.ch : a.ch[i] = b.ch[i]

\* the indices of t at which '---' is read
Occurrences(t) == {i \in 0..(t.len - Len(HeaderDelimiter)) : Matches(t, HeaderDelimiter, i)}

\* the occurrences that do not overlap the first one
AfterFirst(t) ==
    {i \in Occurrences(t) :
        \E f \in Occurrences(t) : /\ \A j \in Occurrences(t) : f <= j
                                  /\ i >= f + Len(HeaderDelimiter)}

\* C22: header stripping returns the text after the second occurrence of
\* '---', trimmed and with every later '---' kept where it is, when the raw
\* text holds the delimiter at least twice (occurrences counted without
\* overlap), and the raw text unchanged otherwise.
C22_HeaderStripping ==
    pc = "done" =>
        LET raw == docs[1]
        IN  IF AfterFirst(raw) # {}
            THEN LET second == CHOOSE i \in AfterFirst(raw) :
                                   \A j \in AfterFirst(raw) : i <= j
                     rest == second + Len(HeaderDelimiter)
                 IN  SameText(text, SubText(raw, Strip(raw, rest, raw.len)))
            ELSE text = raw

\* process_revolutions.py has stripped a document with three delimiters and
\* blanks around what follows the second: the text returned begins after
\* the blanks and holds the third delimiter
C22_Witness ==
    /\ pc = "done" /\ variant = "rev"
    /\ Occurrences(docs[1]) = {0, 20, 30}
    /\ IsSpace(CharAt(docs[1], 23)) /\ IsSpace(CharAt(docs[1], 39))
    /\ text.len = 11
    /\ Occurrences(text) = {4}

(***************************************************************************)
(* The collection and the points written to it                             *)
(***************************************************************************)
\* int(time.time() * 1000000): the clock is kept in microseconds
MicrosPerSecond == 1000000

ThreeBatchSize == 3
ThreeApiDelay == 2
OptBatchSize == 5
OptSleepBetweenBatches == 1
OptSleepBetweenEpisodes == 2
ThreeFileLimit == 3
ThreeMinTranscript == 100

\* payload = {k: v for k, v in chunk.items() if k != 'content'}; of the
\* episode metadata the fields that identify the segment are kept.  A
\* point is [id, vector, payload], vector being "embedding" or "zero".
Payload(chunk, meta, source_name) ==
    [source_name |-> source_name,
     season |-> meta.season,
     episode_number |-> meta.episode_number,
     chunk_index |-> chunk.chunk_index,
     total_chunks |-> chunk.total_chunks,
     content_length |-> chunk.content_length]

\* the logical segment a payload describes
SegmentKey(payload) ==
    <<payload.source_name, payload.season, payload.episode_number, payload.chunk_index>>

\* the identifiers present in a collection
Ids(st) == {p.id : p \in st}

\* qdrant upsert: a point whose id is present replaces the stored point,
\* the last one of the request winning; other ids are added
Upsert(st, points) ==
    LET ids == {points[k].id : k \in 1..Len(points)}
        written == IF Cardinality(ids) = Len(points)
                   THEN {points[k] : k \in 1..Len(points)}
                   ELSE {points[k] : k \in {j \in 1..Len(points) :
                            \A m \in (j + 1)..Len(points) : points[m].id # points[j].id}}
    IN  {p \in st : p.id \notin ids} \cup written

\* what a sequence of points adds to the history of issued identifiers
Issue(points) ==
    {[key |-> SegmentKey(points[k].payload), id |-> points[k].id] : k \in 1..Len(points)}

\* batch = chunks[i:i + batch_size], i 0-based
Batch(cs, i, batch_size) == SubSeq(cs, i + 1, Min(i + batch_size, Len(cs)))

\* the result of running one episode through a pipeline
Outcome(ok, st, clk, iss, n, truncated) ==
    [ok |-> ok, store |-> st, clock |-> clk, issued |-> iss, n |-> n,
     truncated |-> truncated]

(***************************************************************************)
(* 3-file processor: upload_chunks_to_qdrant, process_single_episode       *)
(***************************************************************************)
\* The for loop over the batches from offset i on.  ef is the offset of the
\* batch whose embeddings request fails, uf the offset of the batch whose
\* upsert raises (-1: none); tick is what the clock advances between two
\* point constructions.
RECURSIVE Three_UploadFrom(_, _, _, _, _, _, _, _, _)
Three_UploadFrom(cs, meta, i, st, clk, iss, ef, uf, tick) ==
    IF i >= Len(cs)
    THEN [ok |-> TRUE, store |-> st, clock |-> clk, issued |-> iss]
    ELSE LET batch == Batch(cs, i, ThreeBatchSize)
             \* create_embeddings_batch sleeps api_delay only when it succeeds
             clk1 == IF ef = i THEN clk ELSE clk + ThreeApiDelay * MicrosPerSecond
             vector == IF ef = i THEN "zero" ELSE "embedding"
             points == [j \in 1..Len(batch) |->
                          [id |-> (clk1 + tick * (j - 1)) + i + (j - 1),
                           vector |-> vector,
                           payload |-> Payload(batch[j], meta, "revolutions")]]
             clk2 == clk1 + tick * Len(batch)
         IN  IF uf = i
             THEN [ok |-> FALSE, store |-> st, clock |-> clk2, issued |-> iss]
             ELSE Three_UploadFrom(cs, meta, i + ThreeBatchSize,
                                   Upsert(st, points),
                                   clk2 + 3 * ThreeApiDelay * MicrosPerSecond,
                                   iss \cup Issue(points), ef, uf, tick)

Three_upload_chunks_to_qdrant(cs, meta, st, clk, iss, ef, uf, tick) ==
    IF Len(cs) = 0
    THEN [ok |-> TRUE, store |-> st, clock |-> clk, issued |-> iss]
    ELSE Three_UploadFrom(cs, meta, 0, st, clk, iss, ef, uf, tick)

\* content is the stripped text of the document; fetched is FALSE when
\* get_google_doc_content returned None
Three_process_single_episode(meta, fetched, content, st, clk, iss, ef, uf, tick) ==
    IF ~fetched \/ content.len = 0
    THEN Outcome(FALSE, st, clk, iss, 0, FALSE)
    ELSE LET transcript == extract_transcript_text(content)
         IN  IF transcript.len < ThreeMinTranscript
             THEN Outcome(FALSE, st, clk, iss, 0, FALSE)
             ELSE LET cs == Three_create_text_chunks(transcript)
                      up == Three_upload_chunks_to_qdrant(cs, meta, st, clk, iss, ef, uf, tick)
                  IN  IF Len(cs) = 0
                      THEN Outcome(FALSE, st, clk, iss, 0, FALSE)
                      ELSE Outcome(up.ok, up.store, up.clock, up.issued, Len(cs),
                                   Three_Truncated(transcript))

(***************************************************************************)
(* process_revolutions.py: upload_to_qdrant, process_episode               *)
(***************************************************************************)
\* the for loop over the chunks from position i (1-based) on; ef is the
\* chunk_index of the chunk whose embedding request fails (-1: none)
RECURSIVE Rev_Points(_, _, _, _, _)
Rev_Points(cs, meta, i, points, ef) ==
    IF i > Len(cs) THEN points
    ELSE IF ef = i - 1
         THEN Rev_Points(cs, meta, i + 1, points, ef)
         ELSE Rev_Points(cs, meta, i + 1,
                         Append(points,
                                [id |-> Len(points) + 1,
                                 vector |-> "embedding",
                                 payload |-> Payload(cs[i], meta, "revolutions")]),
                         ef)

\* uf: the upsert raises
Rev_upload_to_qdrant(cs, meta, st, iss, ef, uf) ==
    LET points == Rev_Points(cs, meta, 1, <<>>, ef)
    IN  IF Len(cs) = 0 THEN [ok |-> TRUE, store |-> st, issued |-> iss]
        ELSE IF Len(points) = 0 \/ uf THEN [ok |-> FALSE, store |-> st, issued |-> iss]
        ELSE [ok |-> TRUE, store |-> Upsert(st, points), issued |-> iss \cup Issue(points)]

\* for a transcript on which chunk_text returns
Rev_process_episode(meta, fetched, content, st, clk, iss, ef, uf) ==
    IF ~fetched \/ content.len = 0
    THEN Outcome(FALSE, st, clk, iss, 0, FALSE)
    ELSE LET transcript == extract_transcript_text(content)
         IN  IF transcript.len = 0
             THEN Outcome(FALSE, st, clk, iss, 0, FALSE)
             ELSE LET cs == Rev_chunk_text(transcript)
                      up == Rev_upload_to_qdrant(cs, meta, st, iss, ef, uf)
                  IN  IF Len(cs) = 0
                      THEN Outcome(FALSE, st, clk, iss, 0, FALSE)
                      ELSE Outcome(up.ok, up.store, clk, up.issued, Len(cs), FALSE)

(***************************************************************************)
(* process_revolutions_optimized.py: upload_chunks_to_qdrant,              *)
(* process_episode                                                         *)
(***************************************************************************)
RECURSIVE Opt_UploadFrom(_, _, _, _, _, _, _, _, _, _)
Opt_UploadFrom(cs, meta, i, total_uploaded, st, clk, iss, ef, uf, tick) ==
    IF i >= Len(cs)
    THEN [ok |-> TRUE, store |-> st, clock |-> clk, issued |-> iss]
    ELSE LET batch == Batch(cs, i, OptBatchSize)
             \* create_embedding_batch returns [None] * len(texts) on failure,
             \* and a None embedding is skipped
             points == IF ef = i THEN <<>>
                       ELSE [j \in 1..Len(batch) |->
                               [id |-> (clk + tick * (j - 1)) + total_uploaded + (j - 1),
                                vector |-> "embedding",
                                payload |-> Payload(batch[j], meta, "revolutions")]]
             clk1 == clk + tick * Len(points)
         IN  IF Len(points) > 0 /\ uf = i
             THEN [ok |-> FALSE, store |-> st, clock |-> clk1, issued |-> iss]
             ELSE Opt_UploadFrom(cs, meta, i + OptBatchSize,
                                 total_uploaded + Len(points),
                                 IF Len(points) > 0 THEN Upsert(st, points) ELSE st,
                                 clk1 + OptSleepBetweenBatches * MicrosPerSecond,
                                 iss \cup Issue(points), ef, uf, tick)

Opt_upload_chunks_to_qdrant(cs, meta, st, clk, iss, ef, uf, tick) ==
    IF Len(cs) = 0
    THEN [ok |-> TRUE, store |-> st, clock |-> clk, issued |-> iss]
    ELSE Opt_UploadFrom(cs, meta, 0, 0, st, clk, iss, ef, uf, tick)

\* for an episode not in processed_episodes and a transcript on which
\* chunk_text_efficiently returns
Opt_process_episode(meta, fetched, content, st, clk, iss, ef, uf, tick) ==
    IF ~fetched \/ content.len = 0
    THEN Outcome(FALSE, st, clk, iss, 0, FALSE)
    ELSE LET transcript == extract_transcript_text(content)
         IN  IF transcript.len = 0
             THEN Outcome(FALSE, st, clk, iss, 0, FALSE)
             ELSE LET cs == Opt_chunk_text_efficiently(transcript)
                      up == Opt_upload_chunks_to_qdrant(cs, meta, st, clk, iss, ef, uf, tick)
                  IN  IF Len(cs) = 0
                      THEN Outcome(FALSE, st, clk, iss, 0, FALSE)
                      ELSE Outcome(up.ok, up.store, up.clock, up.issued, Len(cs), FALSE)

(***************************************************************************)
(* Runs of the three Revolutions pipelines over the metadata list          *)
(***************************************************************************)
\* runs started in one behaviour
MaxRuns == 2
\* failures of external calls (document fetch, embeddings, upsert) injected
\* in one behaviour
MaxFailures == 1

\* the metadata list after sorting by (season, episode_number)
VariantEpisodes ==
    <<[season |-> 1, episode_number |-> "1"], [season |-> 1, episode_number |-> "2"]>>

\* all_metadata = all_metadata[:3]
Three_Episodes == SubSeq(VariantEpisodes, 1, Min(ThreeFileLimit, Len(VariantEpisodes)))

Episodes(v) == IF v = "three" THEN Three_Episodes ELSE VariantEpisodes

\* a document with a metadata header closed by the second '---' and a newline
HeaderDoc ==
    [len |-> 600,
     ch |-> Place(HeaderDelimiter, 0) @@ Place(HeaderDelimiter, 50) @@ Place(<<"\n">>, 53)]

ShortDocs == {Plain(50), HeaderDoc, Plain(2000)}

\* the documents behind the google_doc_id of each metadata entry
DocAssignments(v) ==
    [1..Len(VariantEpisodes) -> ShortDocs]
    \cup (IF v = "three" THEN {[i \in 1..Len(VariantEpisodes) |-> Plain(40000)]} ELSE {})

\* microseconds between two successive readings of time.time() in a loop
ClockTicks == {0, 1}

\* where a failure is injected among the batches at offsets 0, size, ...
\* of n chunks: nowhere (-1), the first batch, or the last
FailSpots(n, size) ==
    IF n = 0 THEN {-1} ELSE {-1, 0, ((n - 1) \div size) * size}

Injected(fetched, ef, uf) ==
    (IF fetched THEN 0 ELSE 1) + (IF ef # -1 THEN 1 ELSE 0) + (IF uf # -1 THEN 1 ELSE 0)

\* number of chunks a document gives in variant v (0 when it gives none
\* or the chunker does not return)
Segments(v, content) ==
    LET transcript == extract_transcript_text(content)
    IN  CASE v = "three" -> IF transcript.len < ThreeMinTranscript THEN 0
                            ELSE Len(Three_create_text_chunks(transcript))
          [] v = "rev" -> IF Rev_Returns(transcript)
                          THEN Len(Rev_chunk_text(transcript)) ELSE 0
          [] v = "opt" -> IF Opt_Returns(transcript)
                          THEN Len(Opt_chunk_text_efficiently(transcript)) ELSE 0

VariantsInit ==
    /\ variant \in {"three", "rev", "opt"}
    /\ docs \in DocAssignments(variant)
    /\ store = {} /\ clock = 0 /\ run = 0 /\ epi = 0
    /\ stats = [total |-> 0, success |-> 0, failed |-> 0]
    /\ ppc = "idle" /\ force = FALSE /\ processed_episodes = {}
    /\ failures = 0 /\ issued = {}
    /\ last = [episode |-> <<>>, ok |-> FALSE, n |-> 0, truncated |-> FALSE]
    /\ runLog = <<>>
    /\ text = Plain(0) /\ start = 0 /\ chunk_index = 0 /\ chunks = <<>>
    /\ pc = "none" /\ windows = <<>> /\ iters = 0

\* main(): a processor is constructed and process_all_episodes /
\* process_episodes_safely begins
StartRun ==
    /\ variant \in {"three", "rev", "opt"}
    /\ ppc \in {"idle", "hung"}
    /\ run < MaxRuns
    /\ run' = run + 1
    /\ epi' = 0
    /\ stats' = [total |-> Len(Episodes(variant)), success |-> 0, failed |-> 0]
    /\ processed_episodes' = {}
    /\ ppc' = "running"
    /\ UNCHANGED <<store, clock, docs, force, failures, issued, last, runLog>>
    /\ UNCHANGED chunkVars

\* the loop body of process_all_episodes once the episode's call returned r
Tally(meta, r, injected) ==
    /\ store' = r.store
    /\ clock' = r.clock
    /\ issued' = r.issued
    /\ stats' = IF r.ok THEN [stats EXCEPT !.success = @ + 1]
                ELSE [stats EXCEPT !.failed = @ + 1]
    /\ last' = [episode |-> meta, ok |-> r.ok, n |-> r.n, truncated |-> r.truncated]
    /\ epi' = epi + 1
    /\ failures' = failures + injected
    /\ UNCHANGED <<docs, run, ppc, force, runLog>>
    /\ UNCHANGED chunkVars

\* for i, metadata in enumerate(all_metadata): process_single_episode(metadata)
Three_ProcessEpisode ==
    /\ variant = "three" /\ ppc = "running" /\ epi < Len(Three_Episodes)
    /\ LET meta == Three_Episodes[epi + 1]
           content == docs[epi + 1]
           spots == FailSpots(Segments("three", content), ThreeBatchSize)
       IN  \E fetched \in BOOLEAN, ef \in spots, uf \in spots, tick \in ClockTicks :
              /\ failures + Injected(fetched, ef, uf) <= MaxFailures
              /\ fetched \/ (ef = -1 /\ uf = -1)
              /\ \E r \in {Three_process_single_episode(meta, fetched, content, store,
                                                        clock, issued, ef, uf, tick)} :
                    Tally(meta, r, Injected(fetched, ef, uf))
    /\ UNCHANGED processed_episodes

\* for metadata in tqdm(metadata_files): process_episode(metadata).  When
\* chunk_text does not return, memory runs out: either MemoryError is raised
\* and caught by the loop (the episode counts as failed), or the process is
\* stopped from outside.
Rev_ProcessEpisode ==
    /\ variant = "rev" /\ ppc = "running" /\ epi < Len(VariantEpisodes)
    /\ LET meta == VariantEpisodes[epi + 1]
           content == docs[epi + 1]
           returns == Rev_Returns(extract_transcript_text(content))
           spots == FailSpots(Segments("rev", content), 1)
       IN  \E fetched \in BOOLEAN, ef \in spots, uf \in BOOLEAN,
              fate \in {"MemoryError", "stopped"} :
              /\ failures + Injected(fetched, ef, IF uf THEN 0 ELSE -1) <= MaxFailures
              /\ fetched \/ (ef = -1 /\ ~uf)
              /\ IF fetched /\ ~returns
                 THEN /\ ef = -1 /\ ~uf
                      /\ IF fate = "MemoryError"
                         THEN Tally(meta, Outcome(FALSE, store, clock, issued, 0, FALSE), 0)
                         ELSE /\ ppc' = "hung"
                              /\ UNCHANGED <<store, clock, docs, run, epi, stats, force,
                                             failures, issued, last, runLog>>
                              /\ UNCHANGED chunkVars
                 ELSE /\ fate = "MemoryError"
                      /\ \E r \in {Rev_process_episode(meta, fetched, content, store,
                                                       clock, issued, ef, uf)} :
                            Tally(meta, r, Injected(fetched, ef, IF uf THEN 0 ELSE -1))
    /\ UNCHANGED processed_episodes

\* for i, metadata in enumerate(metadata_files): process_episode(metadata),
\* then time.sleep(2).  When chunk_text_efficiently does not return, memory
\* runs out: MemoryError is caught inside process_episode (False is
\* returned), or the process is stopped from outside.
Opt_ProcessEpisode ==
    /\ variant = "opt" /\ ppc = "running" /\ epi < Len(VariantEpisodes)
    /\ LET meta == VariantEpisodes[epi + 1]
           episode_id == <<meta.season, meta.episode_number>>
           content == docs[epi + 1]
           returns == Opt_Returns(extract_transcript_text(content))
           spots == FailSpots(Segments("opt", content), OptBatchSize)
           pause == OptSleepBetweenEpisodes * MicrosPerSecond
           slept(r) == [r EXCEPT !.clock = @ + pause]
       IN  \E fetched \in BOOLEAN, ef \in spots, uf \in spots, tick \in ClockTicks,
              fate \in {"MemoryError", "stopped"} :
              /\ failures + Injected(fetched, ef, uf) <= MaxFailures
              /\ fetched \/ (ef = -1 /\ uf = -1)
              /\ IF episode_id \in processed_episodes
                 THEN /\ fetched /\ ef = -1 /\ uf = -1 /\ fate = "MemoryError"
                      /\ Tally(meta, slept(Outcome(TRUE, store, clock, issued, 0, FALSE)), 0)
                      /\ UNCHANGED processed_episodes
                 ELSE IF fetched /\ ~returns
                 THEN /\ ef = -1 /\ uf = -1
                      /\ IF fate = "MemoryError"
                         THEN Tally(meta, slept(Outcome(FALSE, store, clock, issued, 0, FALSE)), 0)
                         ELSE /\ ppc' = "hung"
                              /\ UNCHANGED <<store, clock, docs, run, epi, stats, force,
                                             failures, issued, last, runLog>>
                              /\ UNCHANGED chunkVars
                      /\ UNCHANGED processed_episodes
                 ELSE \E r \in {Opt_process_episode(meta, fetched, content, store, clock,
                                                     issued, ef, uf, tick)} :
                          /\ fate = "MemoryError"
                          /\ Tally(meta, slept(r), Injected(fetched, ef, uf))
                          /\ processed_episodes' =
                                IF r.ok THEN processed_episodes \cup {episode_id}
                                ELSE processed_episodes

\* the loop is over: the summary is logged and stats returned
EndRun ==
    /\ variant \in {"three", "rev", "opt"}
    /\ ppc = "running" /\ epi = Len(Episodes(variant))
    /\ ppc' = "idle"
    /\ UNCHANGED <<store, clock, docs, run, epi, stats, force, processed_episodes,
                   failures, issued, last, runLog>>
    /\ UNCHANGED chunkVars

VariantsNext ==
    \/ StartRun
    \/ Three_ProcessEpisode
    \/ Rev_ProcessEpisode
    \/ Opt_ProcessEpisode
    \/ EndRun

SpecVariants == VariantsInit /\ [][VariantsNext]_vars

(***************************************************************************)
(* Properties of the Revolutions pipelines (checked under SpecVariants)    *)
(***************************************************************************)
\* the episode a stored payload belongs to
EpisodeOf(payload) == <<payload.source_name, payload.season, payload.episode_number>>

\* C2: in every ingestion variant the identifier a segment is upserted under
\* is a function of (source name, sequence key, position) alone: whenever
\* the same logical segment is upserted again, in the same or a later run,
\* it gets the identifier it got before.
C2_IdentifierIsFunctionOfSegment ==
    \A a \in issued : \A b \in issued : a.key = b.key => a.id = b.id

\* C3: in process_revolutions.py, upserting the segments of an episode never
\* replaces a stored point that belongs to another episode: a point
\* identifier present before and after a step keeps its episode.
C3_NeverReplacesAnotherEpisode ==
    [][variant = "rev" =>
          \A p \in store : \A q \in store' :
              p.id = q.id => EpisodeOf(q.payload) = EpisodeOf(p.payload)]_vars

\* C7: an episode whose chunker stopped at max_chunks before the end of the
\* text is reported failed, never counted as a success.
C7_TruncatedIsReportedFailed ==
    last.truncated => ~last.ok

\* C9: an episode reported successful has a stored point for every position
\* in [0, segment_count), whether or not an embeddings request failed.
C9_SuccessHasEveryPosition ==
    last.ok =>
        \A position \in 0..(last.n - 1) :
            \E p \in store :
                /\ <<p.payload.season, p.payload.episode_number>> =
                       <<last.episode.season, last.episode.episode_number>>
                /\ p.payload.chunk_index = position

(***************************************************************************)
(* History of Rome: the point identifier                                   *)
(***************************************************************************)
Digit == <<"0", "1", "2", "3", "4", "5", "6", "7", "8", "9">>

\* str(n) / f"{n}" for an int n >= 0: its decimal digits
RECURSIVE Str(_)
Str(n) == IF n < 10 THEN Digit[n + 1] ELSE Str(n \div 10) \o Digit[(n % 10) + 1]

RomeNamespace == "12345678-1234-5678-1234-123456789abc"

\* the unique string with the separator between episode and index left out
Rome_unique_string_NoSeparator(chunk) ==
    "history_rome_" \o chunk.episode_number \o Str(chunk.chunk_index)
        \o "_" \o chunk.source_name

\* the unique string with the chunk's processed_date in it
Rome_unique_string_Dated(chunk) ==
    "history_rome_" \o chunk.episode_number \o "_" \o Str(chunk.chunk_index)
        \o "_" \o chunk.source_name \o "_" \o Str(chunk.processed_date)

\* f"history_rome_{chunk['episode_number']}_{chunk['chunk_index']}_{chunk['source_name']}"
Rome_unique_string(chunk) ==
    "history_rome_" \o chunk.episode_number \o "_" \o Str(chunk.chunk_index)
        \o "_" \o chunk.source_name

\* uuid.uuid5(namespace, name): a hash of (namespace, name), taken to be
\* free of collisions
uuid5(namespace, name) == <<namespace, name>>

\* mutant: a fresh identifier for every chunk dict made (a random uuid)
Rome_point_id_Random(chunk) == <<"uuid4", chunk.processed_date + chunk.chunk_index>>

\* point_id = str(uuid.uuid5(namespace, unique_string))
Rome_point_id(chunk) == uuid5(RomeNamespace, Rome_unique_string(chunk))

(***************************************************************************)
(* The identifier computed for chosen (source, episode, index) triples     *)
(***************************************************************************)
\* identifiers computed in one behaviour
MaxIdentifications == 3

\* episode_number values as they occur in the metadata: plain, two digits,
\* zero-padded with a letter, and one holding the separator itself
IdentityEpisodes == {"1", "11", "003a", "1_1"}

\* chunk_index values of one, two and three digits
IdentityIndexes == {0, 1, 11, 201}

\* 'source_name': 'history_of_rome' in prepare_episode_metadata
RomeSourceName == "history_of_rome"

IdentityInit ==
    /\ variant = "rome"
    /\ last = <<>>
    /\ clock = 0
    /\ store = {} /\ docs = <<>> /\ run = 0 /\ epi = 0
    /\ stats = [total |-> 0, success |-> 0, failed |-> 0]
    /\ ppc = "idle" /\ force = FALSE /\ processed_episodes = {}
    /\ failures = 0 /\ issued = {} /\ runLog = <<>>
    /\ text = Plain(0) /\ start = 0 /\ chunk_index = 0 /\ chunks = <<>>
    /\ pc = "none" /\ windows = <<>> /\ iters = 0

\* the body of the for loop of upload_chunks_to_qdrant up to point_id, for
\* one chunk prepared at the current time; last keeps what was computed
Rome_Identify ==
    /\ Len(last) < MaxIdentifications
    /\ \E episode_number \in IdentityEpisodes, index \in IdentityIndexes :
          LET chunk == [episode_number |-> episode_number,
                        chunk_index |-> index,
                        source_name |-> RomeSourceName,
                        processed_date |-> clock]
          IN  last' = Append(last,
                             [key |-> <<chunk.source_name, chunk.episode_number,
                                        chunk.chunk_index>>,
                              id |-> Rome_point_id(chunk),
                              at |-> clock])
    /\ clock' = clock + 1
    /\ UNCHANGED <<store, docs, run, epi, stats, ppc, force, processed_episodes,
                   failures, issued, runLog>>
    /\ UNCHANGED chunkVars

IdentityNext == Rome_Identify

SpecIdentity == IdentityInit /\ [][IdentityNext]_vars

\* C4: the identifier the History of Rome uploader computes for
\* (source_name, episode_number, chunk_index) is the same every time it is
\* computed for the same triple, and triples that differ in chunk_index or
\* in episode_number get different identifiers.
C4_IdentifierDeterministicAndDistinct ==
    \A i \in 1..Len(last) : \A j \in 1..Len(last) :
        /\ last[i].key = last[j].key => last[i].id = last[j].id
        /\ (last[i].key[2] # last[j].key[2] \/ last[i].key[3] # last[j].key[3])
              => last[i].id # last[j].id

\* the identifier was computed twice for one triple at different times, and
\* for two triples whose episode and index read alike when written side by
\* side ("1", 11 and "11", 1)
C4_Witness ==
    \E i, j, k \in 1..Len(last) :
        /\ last[i].key = <<RomeSourceName, "1", 11>>
        /\ last[j].key = <<RomeSourceName, "11", 1>>
        /\ last[k].key = last[i].key /\ last[k].at # last[i].at

\* C16: process_all_episodes (3-file processor) and process_episodes_safely
\* attempt every source of the metadata list once, in list order; no failure
\* in one source stops the run: whenever a run is no longer going on, every
\* source has been attempted and success + failed = total.
C16_RunReachesEverySource ==
    (variant \in {"three", "opt"} /\ run > 0 /\ ppc # "running") =>
        /\ epi = Len(Episodes(variant))
        /\ stats.success + stats.failed = stats.total

(***************************************************************************)
(* History of Rome: upload_chunks_to_qdrant, process_single_episode        *)
(***************************************************************************)
\* api_delay = 0.1 seconds, in microseconds
RomeApiDelay == 100000
RomeMinTranscript == 100

\* the metadata list after sorting by zero-filled episode_number
RomeEpisodes == <<[episode_number |-> "1"], [episode_number |-> "2"]>>

\* prepare_episode_metadata: the fields that identify the segment, and
\* processed_date (datetime.now())
Rome_prepare_episode_metadata(metadata, clk) ==
    [source_name |-> RomeSourceName,
     episode_number |-> metadata.episode_number,
     processed_date |-> clk]

\* the dict appended for a chunk: {'content': ..., **episode_metadata}
Rome_ChunkDicts(cs, episode_metadata) ==
    [i \in 1..Len(cs) |->
        [content |-> cs[i].content,
         chunk_index |-> cs[i].chunk_index,
         total_chunks |-> cs[i].total_chunks,
         content_length |-> cs[i].content_length,
         source_name |-> episode_metadata.source_name,
         episode_number |-> episode_metadata.episode_number,
         processed_date |-> episode_metadata.processed_date]]

Rome_Issue(points) ==
    {[key |-> <<points[k].payload.source_name, points[k].payload.episode_number,
                points[k].payload.chunk_index>>,
      id |-> points[k].id] : k \in 1..Len(points)}

\* ef: generate_embeddings raises; uf: the upsert raises.  ops lists the
\* requests sent.
Rome_upload_chunks_to_qdrant(cs, st, clk, iss, ef, uf) ==
    LET clk1 == clk + RomeApiDelay
        points == [i \in 1..Len(cs) |->
                     [id |-> Rome_point_id(cs[i]),
                      vector |-> "embedding",
                      payload |-> cs[i]]]
    IN  IF ef \/ uf
        THEN [ok |-> FALSE, store |-> st, clock |-> clk1, issued |-> iss,
              ops |-> IF ef THEN <<"embeddings">> ELSE <<"embeddings", "upsert">>]
        ELSE [ok |-> TRUE, store |-> Upsert(st, points),
              clock |-> clk1 + 2 * RomeApiDelay, issued |-> iss \cup Rome_Issue(points),
              ops |-> <<"embeddings", "upsert">>]

\* mutant: the existence check never finds a point
Rome_check_episode_already_processed_NeverFound(st, episode_number, cf) == FALSE

\* a scroll with limit 1 filtered by source_name and episode_number; cf:
\* the request raises and False is returned
Rome_check_episode_already_processed(st, episode_number, cf) ==
    /\ ~cf
    /\ \E p \in st : /\ p.payload.source_name = RomeSourceName
                     /\ p.payload.episode_number = episode_number

\* check: "" when check_episode_already_processed was not called, "raised"
\* when its request raised, else "found" or "absent" as it returned
RomeOutcome(ok, st, clk, iss, n, skipped, check, ops) ==
    [ok |-> ok, store |-> st, clock |-> clk, issued |-> iss, n |-> n,
     skipped |-> skipped, check |-> check, ops |-> ops]

Rome_process_single_episode(metadata, force_reprocess, fetched, content, st, clk, iss, cf, ef, uf) ==
    LET found == Rome_check_episode_already_processed(st, metadata.episode_number, cf)
        check == IF force_reprocess THEN ""
                 ELSE IF cf THEN "raised"
                 ELSE IF found THEN "found" ELSE "absent"
        checked == IF force_reprocess THEN <<>>
                   ELSE <<"create_payload_index", "create_payload_index", "scroll">>
        read == checked \o <<"get_google_doc_content">>
    IN  IF ~force_reprocess /\ found
        THEN RomeOutcome(TRUE, st, clk, iss, 0, TRUE, check, checked)
        ELSE LET clk0 == clk + RomeApiDelay
             IN  IF ~fetched \/ content.len = 0
                 THEN RomeOutcome(FALSE, st, clk0, iss, 0, FALSE, check, read)
                 ELSE LET transcript == extract_transcript_text(content)
                      IN  IF transcript.len < RomeMinTranscript
                          THEN RomeOutcome(FALSE, st, clk0, iss, 0, FALSE, check, read)
                          ELSE LET cs == Rome_ChunkDicts(
                                            Rome_create_text_chunks(transcript),
                                            Rome_prepare_episode_metadata(metadata, clk0))
                                   up == Rome_upload_chunks_to_qdrant(cs, st, clk0, iss,
                                                                      ef, uf)
                               IN  IF Len(cs) = 0
                                   THEN RomeOutcome(FALSE, st, clk0, iss, 0, FALSE,
                                                    check, read)
                                   ELSE RomeOutcome(up.ok, up.store, up.clock, up.issued,
                                                    Len(cs), FALSE, check,
                                                    read \o up.ops)

(***************************************************************************)
(* History of Rome: main() and the purge                                   *)
(***************************************************************************)
Range(args) == {args[i] : i \in 1..Len(args)}

\* the mode main() takes for sys.argv[1:] = args: the first test of the
\* chain of ifs that holds
Dispatch(args) ==
    IF "--episode" \in Range(args) THEN "episode"
    ELSE IF "--scan-duplicates" \in Range(args) THEN "scan-duplicates"
    ELSE IF "--clean-duplicates" \in Range(args) THEN "clean-duplicates"
    ELSE IF "--delete-all-rome" \in Range(args) THEN "delete-all-rome"
    ELSE IF "--delete-podcast" \in Range(args) THEN "delete-podcast"
    ELSE IF "--delete-episodes" \in Range(args) THEN "delete-episodes"
    ELSE "process"

\* args.index(x): 0-based position of the first x
Index(args, x) == (CHOOSE i \in 1..Len(args) :
                       args[i] = x /\ \A j \in 1..(i - 1) : args[j] # x) - 1

\* str.upper() on the strings that occur as podcast names and confirmations
upper(str) ==
    CASE str = "history_of_rome" -> "HISTORY_OF_ROME"
      [] str = "revolutions" -> "REVOLUTIONS"
      [] str = "delete all rome" -> "DELETE ALL ROME"
      [] OTHER -> str

\* a comparison of the confirmation that ignores case
Confirmed_IgnoringCase(confirm, expected) == upper(confirm) = upper(expected)

\* the negation of: if confirm != <expected>
Confirmed(confirm, expected) == confirm = expected

\* limit=100 of the scroll and batch_size = 100 of the deletion
ScrollLimit == 100
DeleteBatchSize == 100
\* time.sleep(0.5) between deletion batches, in microseconds
RomePurgePause == 500000

\* the sequence of k requests op
Times(op, k) == [i \in 1..k |-> op]

Pages(n, size) == IF n = 0 THEN 1 ELSE (n + size - 1) \div size

(***************************************************************************)
(* The collection as the History of Rome processor reads and empties it:   *)
(* scroll and delete                                                       *)
(***************************************************************************)
\* Ids a stored point can have: the uuid5 of upload_chunks_to_qdrant, the
\* integer of a Revolutions pipeline (<<"int", ...>>), and the random uuid of
\* an earlier identity scheme, <<"uuid4", k>>.  scroll returns points in
\* ascending id order; the order of these ids is fixed here by a key: the
\* integer ids first, then the uuids by episode and chunk position, those
\* of one segment in four slots, the uuid5 in slot 2 and the random uuids of
\* its copies in the slots before and after it.
EpisodeRank(episode_number) ==
    CASE episode_number = "1" -> 1
      [] episode_number = "2" -> 2
      [] episode_number = "5" -> 3
      [] OTHER -> 0

\* chunk positions and ids per segment the key leaves room for
PositionSpan == 1024
SegmentSlots == 4
Uuid5Slot == 2

SegmentBase(episode_number, index) ==
    1 + (EpisodeRank(episode_number) * PositionSpan + index) * SegmentSlots

MaxScanKey == SegmentBase("5", PositionSpan - 1) + SegmentSlots - 1

ScanKey(p) ==
    CASE p.id[1] = "int" -> 0
      [] p.id[1] = "uuid4" -> p.id[2]
      [] OTHER -> SegmentBase(p.payload.episode_number, p.payload.chunk_index)
                     + Uuid5Slot

\* the points of S, whose keys lie in lo..hi, in ascending order of key
RECURSIVE SortByKey(_, _, _)
SortByKey(S, lo, hi) ==
    IF S = {} THEN <<>>
    ELSE IF lo = hi \/ Cardinality(S) = 1 THEN <<CHOOSE p \in S : TRUE>>
    ELSE LET mid == (lo + hi) \div 2
         IN  SortByKey({p \in S : ScanKey(p) <= mid}, lo, mid)
                \o SortByKey({p \in S : ScanKey(p) > mid}, mid + 1, hi)

\* the order in which scroll goes through the collection
Scan(st) == SortByKey(st, 0, MaxScanKey)

\* models.Filter(must=[FieldCondition(key, MatchValue(value)), ...]) as the
\* set of its <<key, value>> conditions; no scroll_filter is {}
Matching(p, scroll_filter) ==
    \A c \in scroll_filter : c[1] \in DOMAIN p.payload /\ p.payload[c[1]] = c[2]

\* qdrant_client.scroll(scroll_filter, limit, offset) on the collection in
\* scan order seq: up to limit matching points from offset on, and the place
\* of the next matching point (0 for None, also as the offset of the start)
scroll(seq, scroll_filter, limit, offset) ==
    LET from == IF offset = 0 THEN 1 ELSE offset
        hits == SelectSeq([i \in 1..Len(seq) |-> i],
                          LAMBDA i : i >= from /\ Matching(seq[i], scroll_filter))
    IN  [points |-> [k \in 1..Min(limit, Len(hits)) |-> seq[hits[k]]],
         next_page_token |-> IF Len(hits) > limit THEN hits[limit + 1] ELSE 0]

\* qdrant_client.delete(points_selector=PointIdsList(points=ids))
Delete(st, ids) == {p \in st : p.id \notin ids}

\* for i in range(0, len(ids), batch_size): delete(ids[i:i + batch_size]),
\* from offset i on; the delete of the batch at offset fail_at raises
\* (-1: none does).  requests counts the delete requests sent.
RECURSIVE DeleteInBatches(_, _, _, _, _)
DeleteInBatches(st, ids, i, fail_at, requests) ==
    IF i >= Len(ids) THEN [ok |-> TRUE, store |-> st, requests |-> requests]
    ELSE IF i = fail_at THEN [ok |-> FALSE, store |-> st, requests |-> requests + 1]
    ELSE DeleteInBatches(Delete(st, Range(Batch(ids, i, DeleteBatchSize))), ids,
                         i + DeleteBatchSize, fail_at, requests + 1)

PointIds(points) == [i \in 1..Len(points) |-> points[i].id]

\* mutant: the fallback keeps every point of the page
LocalFilter_Absent(points, podcast_name) == points

\* [point for point in points
\*        if point.payload and point.payload.get('source_name') == podcast_name]
LocalFilter(points, podcast_name) ==
    SelectSeq(points, LAMBDA p : "source_name" \in DOMAIN p.payload
                                    /\ p.payload.source_name = podcast_name)

\* the while True loop of delete_all_podcast_data: the filtered scroll, or,
\* when it raises (filter_fails), the unfiltered one with the same offset
\* and the filter applied locally.  requests counts the scroll requests.
RECURSIVE PurgeScan(_, _, _, _, _, _)
PurgeScan(seq, podcast_name, filter_fails, next_page_token, all_points, requests) ==
    LET result == IF filter_fails
                  THEN scroll(seq, {}, ScrollLimit, next_page_token)
                  ELSE scroll(seq, {<<"source_name", podcast_name>>}, ScrollLimit,
                              next_page_token)
        points == IF filter_fails THEN LocalFilter(result.points, podcast_name)
                  ELSE result.points
        sent == requests + (IF filter_fails THEN 2 ELSE 1)
    IN  IF result.next_page_token = 0
        THEN [all_points |-> all_points \o points, requests |-> sent]
        ELSE PurgeScan(seq, podcast_name, filter_fails, result.next_page_token,
                       all_points \o points, sent)

\* df: "none"; "filter": the filtered scroll raises and the unfiltered one
\* is used; "scroll": both raise; "delete": the first delete raises.
\* ops lists the requests sent to the store.
delete_all_podcast_data(st, clk, podcast_name, df) ==
    LET indexes == Times("create_payload_index", 2)
        scan == PurgeScan(Scan(st), podcast_name, df = "filter", 0, <<>>, 0)
        scrolls == Times("scroll", scan.requests)
        deleted == DeleteInBatches(st, PointIds(scan.all_points), 0,
                                   IF df = "delete" THEN 0 ELSE -1, 0)
    IN  IF df = "scroll"
        THEN [ok |-> FALSE, store |-> st, clock |-> clk,
              ops |-> indexes \o Times("scroll", 2)]
        ELSE IF Len(scan.all_points) = 0
        THEN [ok |-> TRUE, store |-> st, clock |-> clk, ops |-> indexes \o scrolls]
        ELSE [ok |-> deleted.ok, store |-> deleted.store,
              clock |-> IF deleted.ok THEN clk + deleted.requests * RomePurgePause
                        ELSE clk,
              ops |-> indexes \o scrolls \o Times("delete", deleted.requests)]

\* what is recorded of an episode or a command; purged is the podcast name
\* delete_all_podcast_data was called with ("" when it was not called),
\* check the outcome of check_episode_already_processed ("" when it was not
\* called), duplicates what find_duplicate_episodes returned, episodes the
\* argument of delete_episode_completely, faulty whether a request raised
NoReport ==
    [cmd |-> "", args |-> <<>>, episode |-> "", ok |-> FALSE, n |-> 0,
     skipped |-> FALSE, prompted |-> FALSE, typed |-> "", cancelled |-> FALSE,
     purged |-> "", ops |-> <<>>, check |-> "", duplicates |-> <<>>,
     episodes |-> <<>>, faulty |-> FALSE]

(***************************************************************************)
(* History of Rome: find_duplicate_episodes, clean_duplicate_episodes,     *)
(* delete_episode_completely                                               *)
(***************************************************************************)
\* limit=1000 of the scroll of delete_episode_completely
EpisodeScrollLimit == 1000

\* mutant: every point scrolled is kept, whatever its source_name
RomePointsOf_AnySource(points) == points

\* rome_points = [point for point in points
\*     if point.payload and point.payload.get('source_name') == 'history_of_rome']
RomePointsOf(points) ==
    SelectSeq(points, LAMBDA p : "source_name" \in DOMAIN p.payload
                                    /\ p.payload.source_name = "history_of_rome")

\* the while True loop of find_duplicate_episodes: unfiltered pages of 100
RECURSIVE DuplicateScan(_, _, _, _)
DuplicateScan(seq, next_page_token, all_points, requests) ==
    LET result == scroll(seq, {}, ScrollLimit, next_page_token)
        rome_points == RomePointsOf(result.points)
    IN  IF result.next_page_token = 0
        THEN [all_points |-> all_points \o rome_points, requests |-> requests + 1]
        ELSE DuplicateScan(seq, result.next_page_token, all_points \o rome_points,
                           requests + 1)

\* key = f"{episode_num}_{chunk_index}"
DuplicateKey(point) ==
    point.payload.episode_number \o "_" \o Str(point.payload.chunk_index)

\* a dict from key to list of ids, in insertion order: keys lists the keys,
\* ids maps each to its list, and episode to k.split('_')[0], which is the
\* episode_number the key was made of as long as that holds no '_'
EmptyDict == [keys |-> <<>>, ids |-> <<>>, episode |-> <<>>]

\* if key not in episode_chunks: episode_chunks[key] = []
\* episode_chunks[key].append(point.id)
AddPoint(episode_chunks, point) ==
    LET key == DuplicateKey(point)
    IN  IF key \in DOMAIN episode_chunks.ids
        THEN [episode_chunks EXCEPT !.ids[key] = Append(@, point.id)]
        ELSE [keys |-> Append(episode_chunks.keys, key),
              ids |-> episode_chunks.ids @@ (key :> <<point.id>>),
              episode |-> episode_chunks.episode
                             @@ (key :> point.payload.episode_number)]

\* the dict that inserting the points of right after those of left gives
MergeDicts(left, right) ==
    LET fresh == SelectSeq(right.keys, LAMBDA k : k \notin DOMAIN left.ids)
        keys == left.keys \o fresh
    IN  [keys |-> keys,
         ids |-> [k \in Range(keys) |->
                    (IF k \in DOMAIN left.ids THEN left.ids[k] ELSE <<>>)
                       \o (IF k \in DOMAIN right.ids THEN right.ids[k] ELSE <<>>)],
         episode |-> [k \in Range(keys) |->
                        IF k \in DOMAIN left.ids THEN left.episode[k]
                        ELSE right.episode[k]]]

\* for point in all_points[lo..hi]: ... (evaluated by halving the range)
RECURSIVE GroupPoints(_, _, _)
GroupPoints(all_points, lo, hi) ==
    IF lo > hi THEN EmptyDict
    ELSE IF lo = hi THEN AddPoint(EmptyDict, all_points[lo])
    ELSE LET mid == (lo + hi) \div 2
         IN  MergeDicts(GroupPoints(all_points, lo, mid),
                        GroupPoints(all_points, mid + 1, hi))

\* mutant: the filter keeps every key
Restrict_Everything(d, K) == d

\* {k: v for k, v in d.items() if k in K}
Restrict(d, K) ==
    LET keys == SelectSeq(d.keys, LAMBDA k : k \in K)
    IN  [keys |-> keys, ids |-> [k \in Range(keys) |-> d.ids[k]],
         episode |-> [k \in Range(keys) |-> d.episode[k]]]

\* sf: a scroll raises, the exception is logged and {} returned.  The result
\* is the dict duplicates; requests the scroll requests sent.
find_duplicate_episodes(st, sf) ==
    LET scan == DuplicateScan(Scan(st), 0, <<>>, 0)
        all_points == scan.all_points
        episode_chunks == GroupPoints(all_points, 1, Len(all_points))
    IN  IF sf THEN [duplicates |-> EmptyDict, requests |-> 1]
        ELSE IF Len(all_points) = 0
        THEN [duplicates |-> EmptyDict, requests |-> scan.requests]
        ELSE [duplicates |-> Restrict(episode_chunks,
                                      {k \in DOMAIN episode_chunks.ids :
                                          Len(episode_chunks.ids[k]) > 1}),
              requests |-> scan.requests]

\* mutant: every point of a group is deleted
Rest_WholeGroup(point_ids) == point_ids

\* mutant: the last point of each group is kept instead of the first
Rest_KeepsLast(point_ids) == SubSeq(point_ids, 1, Len(point_ids) - 1)

\* point_ids[1:]
Rest(point_ids) == Tail(point_ids)

\* for key, point_ids in duplicates.items():
\*     points_to_delete.extend(point_ids[1:])
\* over the keys lo..hi (evaluated by halving the range)
RECURSIVE PointsToDelete(_, _, _)
PointsToDelete(duplicates, lo, hi) ==
    IF lo > hi THEN <<>>
    ELSE IF lo = hi THEN Rest(duplicates.ids[duplicates.keys[lo]])
    ELSE LET mid == (lo + hi) \div 2
         IN  PointsToDelete(duplicates, lo, mid)
                \o PointsToDelete(duplicates, mid + 1, hi)

\* episode_numbers: <<>> stands for None.  sf: the scan raises (inside
\* find_duplicate_episodes); fail_at: the offset of the delete batch that
\* raises, -1 for none.
clean_duplicate_episodes(st, clk, episode_numbers, sf, fail_at) ==
    LET found == find_duplicate_episodes(st, sf)
        indexes == Times("create_payload_index", 2)
        scrolls == Times("scroll", found.requests)
        episode_set == Range(episode_numbers)
        duplicates == IF Len(episode_numbers) > 0
                      THEN Restrict(found.duplicates,
                                    {k \in DOMAIN found.duplicates.ids :
                                        found.duplicates.episode[k] \in episode_set})
                      ELSE found.duplicates
        points_to_delete == PointsToDelete(duplicates, 1, Len(duplicates.keys))
        deleted == DeleteInBatches(st, points_to_delete, 0, fail_at, 0)
    IN  IF Len(duplicates.keys) = 0
        THEN [ok |-> TRUE, store |-> st, clock |-> clk, ops |-> indexes \o scrolls]
        ELSE [ok |-> deleted.ok, store |-> deleted.store,
              clock |-> clk + (IF deleted.ok THEN deleted.requests
                               ELSE deleted.requests - 1) * RomePurgePause,
              ops |-> indexes \o scrolls \o Times("delete", deleted.requests)]

\* for episode_num in episode_numbers[i..]: one filtered scroll with
\* limit=1000 and no offset, then one delete of the ids it returned.
\* fail_at: the (1-based) episode whose scroll raises, 0 for none.
RECURSIVE DeleteEpisodesFrom(_, _, _, _, _)
DeleteEpisodesFrom(st, episode_numbers, i, fail_at, ops) ==
    IF i > Len(episode_numbers) THEN [ok |-> TRUE, store |-> st, ops |-> ops]
    ELSE IF i = fail_at THEN [ok |-> FALSE, store |-> st, ops |-> Append(ops, "scroll")]
    ELSE LET result == scroll(Scan(st),
                              {<<"source_name", "history_of_rome">>,
                               <<"episode_number", episode_numbers[i]>>},
                              EpisodeScrollLimit, 0)
             points == result.points
         IN  IF Len(points) > 0
             THEN DeleteEpisodesFrom(Delete(st, Range(PointIds(points))),
                                     episode_numbers, i + 1, fail_at,
                                     ops \o <<"scroll", "delete">>)
             ELSE DeleteEpisodesFrom(st, episode_numbers, i + 1, fail_at,
                                     Append(ops, "scroll"))

delete_episode_completely(st, episode_numbers, fail_at) ==
    DeleteEpisodesFrom(st, episode_numbers, 1, fail_at,
                       Times("create_payload_index", 2))

(***************************************************************************)
(* Invocations of the History of Rome main()                               *)
(***************************************************************************)
\* the documents behind the google_doc_id of the two metadata entries: one
\* chunk and 202 chunks, 202 chunks and too short a text, one chunk each
RomeDocAssignments ==
    {<<HeaderDoc, Plain(1001)>>, <<Plain(1001), Plain(50)>>, <<HeaderDoc, HeaderDoc>>}

\* a point written earlier by a Revolutions pipeline into the same collection
ForeignPoint ==
    [id |-> <<"int", "1">>, vector |-> "embedding",
     payload |-> [source_name |-> "revolutions", episode_number |-> "1",
                  chunk_index |-> 0, total_chunks |-> 1, content_length |-> 50,
                  season |-> 1]]

ProcessArgs == {<<>>, <<"--force">>, <<"--reprocess">>}

PurgeArgs ==
    {<<"--delete-all-rome">>, <<"--delete-podcast", "revolutions", "--delete-all-rome">>,
     <<"--delete-podcast", "history_of_rome">>, <<"--delete-podcast", "revolutions">>,
     <<"--delete-podcast">>}

\* what the operator types at the confirmation prompt
Typed ==
    {"DELETE ALL ROME", "delete all rome", "DELETE ALL ROME ",
     "DELETE HISTORY_OF_ROME", "DELETE REVOLUTIONS"}

PurgeFaults == {"none", "filter", "scroll", "delete"}

RomeInit ==
    /\ variant = "rome"
    /\ docs \in RomeDocAssignments
    /\ store = {ForeignPoint}
    /\ clock = 0 /\ run = 0 /\ epi = 0
    /\ stats = [total |-> 0, success |-> 0, failed |-> 0]
    /\ ppc = "idle" /\ force = FALSE /\ processed_episodes = {}
    /\ failures = 0 /\ issued = {}
    /\ last = NoReport
    /\ runLog = <<>>
    /\ text = Plain(0) /\ start = 0 /\ chunk_index = 0 /\ chunks = <<>>
    /\ pc = "none" /\ windows = <<>> /\ iters = 0

\* main() without a mode option: process_all_episodes(force_reprocess) begins
Rome_StartRun ==
    /\ variant = "rome" /\ ppc = "idle" /\ run < MaxRuns
    /\ \E args \in ProcessArgs :
          /\ Dispatch(args) = "process"
          /\ force' = ("--force" \in Range(args) \/ "--reprocess" \in Range(args))
          /\ last' = [NoReport EXCEPT !.cmd = "process", !.args = args]
          /\ runLog' = Append(runLog,
                              [cmd |-> "process",
                               force |-> ("--force" \in Range(args)
                                             \/ "--reprocess" \in Range(args)),
                               failures0 |-> failures, complete |-> FALSE,
                               clean |-> FALSE, ids |-> {}])
    /\ run' = run + 1
    /\ epi' = 0
    /\ stats' = [total |-> Len(RomeEpisodes), success |-> 0, failed |-> 0]
    /\ ppc' = "running"
    /\ UNCHANGED <<store, clock, docs, processed_episodes, failures, issued>>
    /\ UNCHANGED chunkVars

\* for i, metadata in enumerate(all_metadata):
\*     process_single_episode(metadata, force_reprocess)
Rome_ProcessEpisode ==
    /\ variant = "rome" /\ ppc = "running" /\ epi < Len(RomeEpisodes)
    /\ \E fetched \in BOOLEAN, cf \in BOOLEAN, ef \in BOOLEAN, uf \in BOOLEAN :
          LET injected == (IF fetched THEN 0 ELSE 1) + (IF cf THEN 1 ELSE 0)
                             + (IF ef THEN 1 ELSE 0) + (IF uf THEN 1 ELSE 0)
              metadata == RomeEpisodes[epi + 1]
          IN  /\ failures + injected <= MaxFailures
              /\ force => ~cf
              /\ ~fetched => (~ef /\ ~uf)
              /\ ef => ~uf
              /\ \E r \in {Rome_process_single_episode(metadata, force, fetched,
                              docs[epi + 1], store, clock, issued, cf, ef, uf)} :
                    /\ store' = r.store
                    /\ clock' = r.clock
                    /\ issued' = r.issued
                    /\ stats' = IF r.ok THEN [stats EXCEPT !.success = @ + 1]
                                ELSE [stats EXCEPT !.failed = @ + 1]
                    /\ last' = [NoReport EXCEPT !.cmd = "process",
                                                !.episode = metadata.episode_number,
                                                !.ok = r.ok, !.n = r.n,
                                                !.skipped = r.skipped,
                                                !.check = r.check, !.ops = r.ops]
              /\ failures' = failures + injected
    /\ epi' = epi + 1
    /\ UNCHANGED <<docs, run, ppc, force, processed_episodes, runLog>>
    /\ UNCHANGED chunkVars

\* the loop is over: the summary is logged and stats returned
Rome_EndRun ==
    /\ variant = "rome" /\ ppc = "running" /\ epi = Len(RomeEpisodes)
    /\ ppc' = "idle"
    /\ runLog' = [runLog EXCEPT ![Len(runLog)] =
                     [cmd |-> @.cmd, force |-> @.force, failures0 |-> @.failures0,
                      complete |-> TRUE, clean |-> (failures = @.failures0),
                      ids |-> Ids(store)]]
    /\ UNCHANGED <<store, clock, docs, run, epi, stats, force, processed_episodes,
                   failures, issued, last>>
    /\ UNCHANGED chunkVars

\* The purge modes from the confirmation prompt on: confirm is what is
\* typed, expected the text it is compared with, podcast_name the argument
\* delete_all_podcast_data gets, df the fault injected into it.
Purge(cmd, args, confirm, expected, podcast_name, df) ==
    /\ IF ~Confirmed(confirm, expected)
       THEN \* print("Deletion cancelled - confirmation text did not match"); return
            /\ df = "none"
            /\ last' = [NoReport EXCEPT !.cmd = cmd, !.args = args,
                                        !.prompted = TRUE, !.typed = confirm,
                                        !.cancelled = TRUE]
            /\ UNCHANGED <<store, clock, failures>>
       ELSE \* processor = AWSHistoryRomeProcessor()
            \* success = processor.delete_all_podcast_data(podcast_name)
            /\ failures + (IF df = "none" THEN 0 ELSE 1) <= MaxFailures
            /\ \E r \in {delete_all_podcast_data(store, clock, podcast_name, df)} :
                  /\ store' = r.store
                  /\ clock' = r.clock
                  /\ last' = [NoReport EXCEPT !.cmd = cmd, !.args = args,
                                              !.prompted = TRUE, !.typed = confirm,
                                              !.purged = podcast_name,
                                              !.ok = r.ok, !.ops = r.ops]
            /\ failures' = failures + (IF df = "none" THEN 0 ELSE 1)
    /\ run' = run + 1
    /\ runLog' = Append(runLog,
                        [cmd |-> cmd, force |-> FALSE, failures0 |-> failures,
                         complete |-> TRUE, clean |-> (df = "none"),
                         ids |-> Ids(store')])
    /\ UNCHANGED <<docs, epi, stats, ppc, force, processed_episodes, issued>>
    /\ UNCHANGED chunkVars

\* main() with --delete-all-rome
Rome_DeleteAllRome ==
    /\ variant = "rome" /\ ppc = "idle" /\ run < MaxRuns
    /\ \E args \in PurgeArgs, confirm \in Typed, df \in PurgeFaults :
          /\ Dispatch(args) = "delete-all-rome"
          /\ Purge("delete-all-rome", args, confirm, "DELETE ALL ROME",
                   "history_of_rome", df)

\* main() with --delete-podcast NAME
Rome_DeletePodcast ==
    /\ variant = "rome" /\ ppc = "idle" /\ run < MaxRuns
    /\ \E args \in PurgeArgs, confirm \in Typed, df \in PurgeFaults :
          /\ Dispatch(args) = "delete-podcast"
          /\ LET delete_index == Index(args, "--delete-podcast")
             IN  IF delete_index + 1 < Len(args)
                 THEN LET podcast_name == args[delete_index + 2]
                      IN  Purge("delete-podcast", args, confirm,
                                "DELETE " \o upper(podcast_name), podcast_name, df)
                 ELSE \* print("Please specify podcast name after --delete-podcast")
                      \* (nothing is asked and no request sent: the unused
                      \* inputs are fixed)
                      /\ confirm = "DELETE ALL ROME" /\ df = "none"
                      /\ last' = [NoReport EXCEPT !.cmd = "delete-podcast",
                                                  !.args = args]
                      /\ run' = run + 1
                      /\ runLog' = Append(runLog,
                                          [cmd |-> "delete-podcast", force |-> FALSE,
                                           failures0 |-> failures, complete |-> TRUE,
                                           clean |-> TRUE, ids |-> Ids(store)])
                      /\ UNCHANGED <<store, clock, failures, docs, epi, stats, ppc,
                                     force, processed_episodes, issued>>
                      /\ UNCHANGED chunkVars

RomeNext ==
    \/ Rome_StartRun
    \/ Rome_ProcessEpisode
    \/ Rome_EndRun
    \/ Rome_DeleteAllRome
    \/ Rome_DeletePodcast

SpecRome == RomeInit /\ [][RomeNext]_vars

\* number of requests op among those a command sent
Sent(ops, op) == Cardinality({i \in 1..Len(ops) : ops[i] = op})

\* this step is a call of process_single_episode by process_all_episodes
EpisodeStep ==
    /\ ppc = "running"
    /\ epi' = epi + 1
    /\ last'.cmd = "process"

\* the store holds a point tagged (history_of_rome, episode_number)
Holds(st, episode_number) ==
    \E p \in st : /\ p.payload.source_name = RomeSourceName
                  /\ p.payload.episode_number = episode_number

\* the document was not fetched, the embedding service not called and no
\* upsert sent
NothingIngested(ops) ==
    \A i \in 1..Len(ops) : ops[i] \notin {"get_google_doc_content", "embeddings", "upsert"}

\* C15 as stated: process_single_episode without force_reprocess, when the
\* store holds a point tagged (history_of_rome, episode_number), returns
\* success without fetching the document, calling the embedding service or
\* writing to the store, and the store is unchanged; with force_reprocess
\* the existence check is not made and the source is re-ingested.
C15_StoredEpisodeIsSkipped ==
    [][EpisodeStep =>
          /\ (~force /\ Holds(store, last'.episode)) =>
                /\ last'.ok /\ last'.skipped
                /\ NothingIngested(last'.ops)
                /\ store' = store
          /\ force =>
                /\ last'.check = ""
                /\ Sent(last'.ops, "get_google_doc_content") = 1]_vars

\* C15 amended: the skip happens when the existence check finds the point,
\* that is when the store holds one and the check's request succeeds; when
\* the request raises the check counts as not found and the source is
\* re-ingested like a forced one.
C15_FoundEpisodeIsSkipped ==
    [][EpisodeStep =>
          /\ (~force /\ Holds(store, last'.episode) /\ last'.check # "raised") =>
                /\ last'.check = "found"
                /\ last'.ok /\ last'.skipped
                /\ NothingIngested(last'.ops)
                /\ store' = store
          /\ (~force /\ last'.check = "raised") =>
                /\ ~last'.skipped
                /\ Sent(last'.ops, "get_google_doc_content") = 1
          /\ force =>
                /\ last'.check = ""
                /\ ~last'.skipped
                /\ Sent(last'.ops, "get_google_doc_content") = 1]_vars

\* an unforced run has just skipped an episode whose points an earlier run
\* had stored
C15_Witness ==
    /\ last.cmd = "process" /\ ppc = "running" /\ ~force
    /\ last.skipped /\ last.ok /\ last.check = "found"
    /\ Holds(store, last.episode)
    /\ run = 2

(***************************************************************************)
(* History of Rome ingestion runs of several processes on one collection.  *)
(* A process reads the collection in check_episode_already_processed and   *)
(* writes it in the upsert of upload_chunks_to_qdrant; steps of other      *)
(* processes may fall between the two.                                     *)
(***************************************************************************)
Workers == {1, 2}

ConcurrentDocs == <<HeaderDoc, Plain(1001)>>

ConcurrentInit ==
    /\ variant = "rome"
    /\ docs = ConcurrentDocs
    /\ store = {}
    /\ clock = 0 /\ run = 0
    /\ epi = [w \in Workers |-> 0]
    /\ ppc = [w \in Workers |-> "idle"]
    /\ force = [w \in Workers |-> FALSE]
    /\ chunks = [w \in Workers |-> <<>>]
    /\ stats = [w \in Workers |-> [total |-> 0, success |-> 0, failed |-> 0]]
    /\ last = [w \in Workers |-> NoReport]
    /\ processed_episodes = {}
    /\ failures = 0 /\ issued = {}
    /\ runLog = <<>>
    /\ text = Plain(0) /\ start = 0 /\ chunk_index = 0
    /\ pc = "none" /\ windows = <<>> /\ iters = 0

\* process w starts main() without a mode option; a process runs main() once,
\* and the processes are numbered in the order they start
Worker_StartRun(w) ==
    /\ ppc[w] = "idle"
    /\ \A v \in Workers : v < w => ppc[v] # "idle"
    /\ \E args \in ProcessArgs :
          /\ force' = [force EXCEPT ![w] = ("--force" \in Range(args)
                                               \/ "--reprocess" \in Range(args))]
          /\ last' = [last EXCEPT ![w] = [NoReport EXCEPT !.cmd = "process",
                                                          !.args = args]]
    /\ run' = run + 1
    /\ epi' = [epi EXCEPT ![w] = 0]
    /\ stats' = [stats EXCEPT ![w] = [total |-> Len(RomeEpisodes), success |-> 0,
                                      failed |-> 0]]
    /\ ppc' = [ppc EXCEPT ![w] = "running"]
    /\ UNCHANGED <<store, clock, docs, processed_episodes, failures, issued, runLog,
                   chunks>>
    /\ UNCHANGED <<variant, text, start, chunk_index, pc, windows, iters>>

\* process w tallies the outcome of an episode and goes on to the next
Worker_Tally(w, ok, n, skipped, check) ==
    /\ stats' = [stats EXCEPT ![w] = IF ok THEN [@ EXCEPT !.success = @ + 1]
                                     ELSE [@ EXCEPT !.failed = @ + 1]]
    /\ last' = [last EXCEPT ![w] = [NoReport EXCEPT
                                       !.cmd = "process",
                                       !.episode = RomeEpisodes[epi[w] + 1].episode_number,
                                       !.ok = ok, !.n = n, !.skipped = skipped,
                                       !.check = check]]
    /\ epi' = [epi EXCEPT ![w] = @ + 1]

\* process_single_episode of process w up to the call of
\* upload_chunks_to_qdrant: the existence check, the fetch, the header
\* stripping and the chunking
Worker_Prepare(w) ==
    /\ ppc[w] = "running" /\ epi[w] < Len(RomeEpisodes)
    /\ \E fetched \in BOOLEAN, cf \in BOOLEAN :
          LET injected == (IF fetched THEN 0 ELSE 1) + (IF cf THEN 1 ELSE 0)
              metadata == RomeEpisodes[epi[w] + 1]
              content == docs[epi[w] + 1]
              found == Rome_check_episode_already_processed(store,
                                                           metadata.episode_number, cf)
              check == IF force[w] THEN ""
                       ELSE IF cf THEN "raised"
                       ELSE IF found THEN "found" ELSE "absent"
              clk0 == clock + RomeApiDelay
              transcript == extract_transcript_text(content)
          IN  /\ failures + injected <= MaxFailures
              /\ force[w] => ~cf
              /\ failures' = failures + injected
              /\ IF ~force[w] /\ found
                 THEN /\ fetched
                      /\ Worker_Tally(w, TRUE, 0, TRUE, check)
                      /\ UNCHANGED <<clock, chunks, ppc>>
                 ELSE IF \/ ~fetched \/ content.len = 0
                         \/ transcript.len < RomeMinTranscript
                         \/ Len(Rome_create_text_chunks(transcript)) = 0
                 THEN /\ Worker_Tally(w, FALSE, 0, FALSE, check)
                      /\ clock' = clk0
                      /\ UNCHANGED <<chunks, ppc>>
                 ELSE /\ chunks' = [chunks EXCEPT ![w] =
                                       Rome_ChunkDicts(
                                           Rome_create_text_chunks(transcript),
                                           Rome_prepare_episode_metadata(metadata, clk0))]
                      /\ last' = [last EXCEPT ![w] = [@ EXCEPT !.check = check]]
                      /\ clock' = clk0
                      /\ ppc' = [ppc EXCEPT ![w] = "uploading"]
                      /\ UNCHANGED <<stats, epi>>
    /\ UNCHANGED <<store, docs, run, force, processed_episodes, issued, runLog>>
    /\ UNCHANGED <<variant, text, start, chunk_index, pc, windows, iters>>

\* upload_chunks_to_qdrant of process w, and the rest of the loop body
Worker_Upload(w) ==
    /\ ppc[w] = "uploading"
    /\ \E ef \in BOOLEAN, uf \in BOOLEAN :
          /\ ~(ef /\ uf)
          /\ failures + (IF ef \/ uf THEN 1 ELSE 0) <= MaxFailures
          /\ failures' = failures + (IF ef \/ uf THEN 1 ELSE 0)
          /\ \E r \in {Rome_upload_chunks_to_qdrant(chunks[w], store, clock, issued,
                                                    ef, uf)} :
                /\ store' = r.store
                /\ clock' = r.clock
                /\ issued' = r.issued
                /\ Worker_Tally(w, r.ok, Len(chunks[w]), FALSE, last[w].check)
    /\ chunks' = [chunks EXCEPT ![w] = <<>>]
    /\ ppc' = [ppc EXCEPT ![w] = "running"]
    /\ UNCHANGED <<docs, run, force, processed_episodes, runLog>>
    /\ UNCHANGED <<variant, text, start, chunk_index, pc, windows, iters>>

\* the loop of process w is over
Worker_EndRun(w) ==
    /\ ppc[w] = "running" /\ epi[w] = Len(RomeEpisodes)
    /\ ppc' = [ppc EXCEPT ![w] = "done"]
    /\ UNCHANGED <<store, clock, docs, run, epi, stats, force, processed_episodes,
                   failures, issued, last, runLog>>
    /\ UNCHANGED chunkVars

ConcurrentNext ==
    \E w \in Workers :
        \/ Worker_StartRun(w)
        \/ Worker_Prepare(w)
        \/ Worker_Upload(w)
        \/ Worker_EndRun(w)

SpecConcurrent == ConcurrentInit /\ [][ConcurrentNext]_vars

\* C25: starting from an empty store, under any number and interleaving of
\* History of Rome ingestion runs over unchanged sources (forced or not, one
\* after the other or at the same time), the store never holds two points
\* with the same (source_name, episode_number, chunk_index), and a duplicate
\* scan reports no group.
C25_IngestionMakesNoDuplicates ==
    /\ Cardinality({<<p.payload.source_name, p.payload.episode_number,
                       p.payload.chunk_index>> : p \in store}) = Cardinality(store)
    /\ find_duplicate_episodes(store, FALSE).duplicates.keys = <<>>

\* two unforced processes both found episode 2 absent, both uploaded its
\* 202 chunks, and the store holds them once
C25_Witness ==
    /\ \A w \in Workers :
          /\ last[w].episode = "2" /\ last[w].ok /\ ~last[w].skipped
          /\ last[w].check = "absent" /\ last[w].n > 1
    /\ Cardinality({p \in store : p.payload.episode_number = "2"}) = last[1].n

(***************************************************************************)
(* The reconciliation commands of main() on collections that hold points   *)
(* of an earlier identity scheme                                           *)
(***************************************************************************)
\* the payload upload_chunks_to_qdrant stores for chunk index of an episode
StoredChunk(episode_number, index) ==
    [content |-> <<0, 100>>, chunk_index |-> index, total_chunks |-> 1,
     content_length |-> 100, source_name |-> RomeSourceName,
     episode_number |-> episode_number, processed_date |-> 0]

\* the point upload_chunks_to_qdrant writes for it
CurrentPoint(episode_number, index) ==
    [id |-> Rome_point_id(StoredChunk(episode_number, index)),
     vector |-> "embedding", payload |-> StoredChunk(episode_number, index)]

\* a point of the same segment written under a random uuid, which falls
\* into slot 0, 1 or 3 of the segment in id order
LegacySlots == {0, 1, 3}

LegacyPoint(episode_number, index, slot) ==
    [id |-> <<"uuid4", SegmentBase(episode_number, index) + slot>>,
     vector |-> "embedding", payload |-> StoredChunk(episode_number, index)]

\* a second Revolutions point with the episode_number and chunk_index of
\* ForeignPoint, under a uuid that sorts before every History of Rome id
ForeignTwin ==
    [id |-> <<"uuid4", 2>>, vector |-> "embedding",
     payload |-> ForeignPoint.payload]

\* two points with identical (episode 5, position 2) and different ids
ScenarioStore ==
    {LegacyPoint("5", 2, 0), LegacyPoint("5", 2, 3), CurrentPoint("5", 0),
     CurrentPoint("5", 1), ForeignPoint}

\* groups of three, two and one point, one of two legacy points only
MixedStore ==
    {CurrentPoint("1", 0), LegacyPoint("1", 0, 0), LegacyPoint("1", 0, 3),
     CurrentPoint("1", 1), LegacyPoint("1", 1, 3), CurrentPoint("1", 2),
     LegacyPoint("2", 0, 0), LegacyPoint("2", 0, 1), ForeignPoint, ForeignTwin}

\* an episode ingested four times under changing ids, holding more points
\* than one scroll of delete_episode_completely returns
LargeStore ==
    {CurrentPoint("1", i) : i \in 0..(EpisodeScrollLimit \div SegmentSlots)}
    \cup {LegacyPoint("1", i, slot) :
             i \in 0..(EpisodeScrollLimit \div SegmentSlots), slot \in LegacySlots}
    \cup {CurrentPoint("2", 0), ForeignPoint, ForeignTwin}

TidyStore == {CurrentPoint("1", 0), CurrentPoint("1", 1), CurrentPoint("2", 0), ForeignPoint}

ReconcileStores == {ScenarioStore, MixedStore, LargeStore, TidyStore, {}}

\* the strings of sys.argv for which startswith('--') holds
Options ==
    {"--episode", "--scan-duplicates", "--clean-duplicates", "--delete-all-rome",
     "--delete-podcast", "--delete-episodes", "--force", "--reprocess"}

ReconcileArgs ==
    {<<"--scan-duplicates">>, <<"--clean-duplicates", "--scan-duplicates">>,
     <<"--clean-duplicates">>,
     <<"--delete-episodes", "1">>, <<"--delete-episodes", "5", "2">>,
     <<"--delete-episodes", "2", "--force", "1">>, <<"--delete-episodes", "9">>,
     <<"--delete-episodes">>}

\* for i in range(delete_index + 1, len(args)):
\*     if args[i].startswith('--'): break
\*     episode_numbers.append(args[i])
EpisodeArguments(args) ==
    LET delete_index == Index(args, "--delete-episodes")
        rest == SubSeq(args, delete_index + 2, Len(args))
        stops == {k \in 1..Len(rest) : rest[k] \in Options}
    IN  IF stops = {} THEN rest
        ELSE SubSeq(rest, 1, (CHOOSE k \in stops : \A j \in stops : k <= j) - 1)

ReconcileInit ==
    /\ variant = "rome"
    /\ store \in ReconcileStores
    /\ docs = <<>>
    /\ clock = 0 /\ run = 0 /\ epi = 0
    /\ stats = [total |-> 0, success |-> 0, failed |-> 0]
    /\ ppc = "idle" /\ force = FALSE /\ processed_episodes = {}
    /\ failures = 0 /\ issued = {}
    /\ last = NoReport
    /\ runLog = <<>>
    /\ text = Plain(0) /\ start = 0 /\ chunk_index = 0 /\ chunks = <<>>
    /\ pc = "none" /\ windows = <<>> /\ iters = 0

\* main() with --scan-duplicates: find_duplicate_episodes()
Rome_ScanDuplicates ==
    /\ variant = "rome" /\ ppc = "idle" /\ run < MaxRuns
    /\ \E args \in ReconcileArgs, sf \in BOOLEAN :
          /\ Dispatch(args) = "scan-duplicates"
          /\ failures + (IF sf THEN 1 ELSE 0) <= MaxFailures
          /\ \E r \in {find_duplicate_episodes(store, sf)} :
                last' = [NoReport EXCEPT !.cmd = "scan-duplicates", !.args = args,
                                         !.ok = ~sf, !.faulty = sf,
                                         !.duplicates = r.duplicates,
                                         !.ops = Times("create_payload_index", 2)
                                                    \o Times("scroll", r.requests)]
          /\ failures' = failures + (IF sf THEN 1 ELSE 0)
    /\ run' = run + 1
    /\ UNCHANGED <<store, clock, docs, epi, stats, ppc, force, processed_episodes,
                   issued, runLog>>
    /\ UNCHANGED chunkVars

\* main() with --clean-duplicates: clean_duplicate_episodes()
Rome_CleanDuplicates ==
    /\ variant = "rome" /\ ppc = "idle" /\ run < MaxRuns
    /\ \E args \in ReconcileArgs, sf \in BOOLEAN,
          fail_at \in {-1, 0, DeleteBatchSize, 2 * DeleteBatchSize} :
          /\ Dispatch(args) = "clean-duplicates"
          /\ sf => fail_at = -1
          /\ failures + (IF sf \/ fail_at # -1 THEN 1 ELSE 0) <= MaxFailures
          /\ \E r \in {clean_duplicate_episodes(store, clock, <<>>, sf, fail_at)} :
                LET raised == sf \/ ~r.ok
                IN  /\ fail_at # -1 => ~r.ok
                    /\ failures + (IF raised THEN 1 ELSE 0) <= MaxFailures
                    /\ store' = r.store
                    /\ clock' = r.clock
                    /\ last' = [NoReport EXCEPT !.cmd = "clean-duplicates",
                                                !.args = args, !.ok = r.ok,
                                                !.faulty = raised, !.ops = r.ops]
                    /\ failures' = failures + (IF raised THEN 1 ELSE 0)
    /\ run' = run + 1
    /\ UNCHANGED <<docs, epi, stats, ppc, force, processed_episodes, issued, runLog>>
    /\ UNCHANGED chunkVars

\* the episode lists clean_duplicate_episodes is called with by a caller
\* other than main()
CleanScopes == {<<"2">>, <<"9">>, <<"2", "5">>}

\* processor.clean_duplicate_episodes(episode_numbers) with a list
Rome_CleanEpisodes ==
    /\ variant = "rome" /\ ppc = "idle" /\ run < MaxRuns
    /\ \E episode_numbers \in CleanScopes, sf \in BOOLEAN, fail_at \in {-1, 0} :
          /\ sf => fail_at = -1
          /\ failures + (IF sf \/ fail_at # -1 THEN 1 ELSE 0) <= MaxFailures
          /\ \E r \in {clean_duplicate_episodes(store, clock, episode_numbers, sf,
                                                fail_at)} :
                LET raised == sf \/ ~r.ok
                IN  /\ fail_at # -1 => ~r.ok
                    /\ failures + (IF raised THEN 1 ELSE 0) <= MaxFailures
                    /\ store' = r.store
                    /\ clock' = r.clock
                    /\ last' = [NoReport EXCEPT !.cmd = "clean-episodes",
                                                !.episodes = episode_numbers,
                                                !.ok = r.ok, !.faulty = raised,
                                                !.ops = r.ops]
                    /\ failures' = failures + (IF raised THEN 1 ELSE 0)
    /\ run' = run + 1
    /\ UNCHANGED <<docs, epi, stats, ppc, force, processed_episodes, issued, runLog>>
    /\ UNCHANGED chunkVars

\* main() with --delete-episodes E1 E2 ...: delete_episode_completely
Rome_DeleteEpisodes ==
    /\ variant = "rome" /\ ppc = "idle" /\ run < MaxRuns
    /\ \E args \in ReconcileArgs :
          /\ Dispatch(args) = "delete-episodes"
          /\ LET episode_numbers == EpisodeArguments(args)
             IN  IF Len(episode_numbers) = 0
                 THEN \* print("Please specify episode numbers to delete")
                      /\ last' = [NoReport EXCEPT !.cmd = "delete-episodes",
                                                  !.args = args]
                      /\ UNCHANGED <<store, failures>>
                 ELSE \E fail_at \in 0..Len(episode_numbers) :
                        /\ failures + (IF fail_at = 0 THEN 0 ELSE 1) <= MaxFailures
                        /\ \E r \in {delete_episode_completely(store, episode_numbers,
                                                               fail_at)} :
                              /\ store' = r.store
                              /\ last' = [NoReport EXCEPT !.cmd = "delete-episodes",
                                                          !.args = args, !.ok = r.ok,
                                                          !.episodes = episode_numbers,
                                                          !.faulty = (fail_at # 0),
                                                          !.ops = r.ops]
                        /\ failures' = failures + (IF fail_at = 0 THEN 0 ELSE 1)
    /\ run' = run + 1
    /\ UNCHANGED <<clock, docs, epi, stats, ppc, force, processed_episodes, issued,
                   runLog>>
    /\ UNCHANGED chunkVars

ReconcileNext ==
    \/ Rome_ScanDuplicates
    \/ Rome_CleanDuplicates
    \/ Rome_CleanEpisodes
    \/ Rome_DeleteEpisodes

SpecReconcile == ReconcileInit /\ [][ReconcileNext]_vars

(***************************************************************************)
(* Properties of the reconciliation commands (checked under SpecReconcile) *)
(***************************************************************************)
RomePoints(st) == {p \in st : p.payload.source_name = RomeSourceName}

\* the (episode_number, chunk_index) pairs of the History of Rome points
RomeSegments(st) ==
    {<<p.payload.episode_number, p.payload.chunk_index>> : p \in RomePoints(st)}

\* the stored History of Rome points of one (episode_number, chunk_index)
RomeGroup(st, g) ==
    {p \in RomePoints(st) : p.payload.episode_number = g[1]
                               /\ p.payload.chunk_index = g[2]}

\* the History of Rome points grouped by (episode_number, chunk_index)
RomeGroups(st) == {RomeGroup(st, g) : g \in RomeSegments(st)}

\* the groups stored under more than one id
DuplicateGroups(st) == {G \in RomeGroups(st) : Cardinality(G) > 1}

\* the point of G that scroll returns first
FirstScanned(G) == CHOOSE p \in G : \A q \in G : ScanKey(p) <= ScanKey(q)

\* this step is a --clean-duplicates in which no request raised
CleanSucceeded ==
    /\ run' = run + 1
    /\ last'.cmd = "clean-duplicates"
    /\ last'.ok /\ ~last'.faulty

\* C11: after clean_duplicate_episodes has completed, the scan and every
\* delete batch succeeding, each (episode_number, chunk_index) group that
\* held more than one point holds exactly one, the first in scan order (so
\* of a group of two, one is kept and one deleted), and no other point is
\* deleted.
C11_CleanKeepsFirstOfEachGroup ==
    [][CleanSucceeded =>
          store' = (store \ RomePoints(store))
                      \cup {FirstScanned(G) : G \in RomeGroups(store)}]_vars

\* the duplicates of the large collection have been deleted in several
\* batches; of the first segment of episode 1 the random-uuid point that
\* comes first in scan order is the one kept
C11_Witness ==
    /\ last.cmd = "clean-duplicates" /\ last.ok /\ ~last.faulty
    /\ Sent(last.ops, "delete") >= 2
    /\ RomeGroup(store, <<"1", 0>>) = {LegacyPoint("1", 0, 0)}
    /\ DuplicateGroups(store) = {}
    /\ ForeignTwin \in store

\* this step is a call of clean_duplicate_episodes, whatever it returned
CleanStep ==
    /\ run' = run + 1
    /\ last'.cmd \in {"clean-duplicates", "clean-episodes"}

\* C26: whatever number of delete batches clean_duplicate_episodes has sent
\* when it stops (all of them, or those before a batch that raises, the
\* operation then returning False), each (episode_number, chunk_index) group
\* that had a stored point still has one: the first-scanned point of every
\* group is still stored.
C26_FirstScannedSurvivesEveryBatch ==
    [][CleanStep =>
          /\ \A G \in RomeGroups(store) : FirstScanned(G) \in store'
          /\ store' \subseteq store]_vars

\* a cleanup of the large collection stopped at a batch after the first:
\* some groups are down to one point, others still duplicated, none empty
C26_Witness ==
    /\ last.cmd = "clean-duplicates" /\ ~last.ok /\ last.faulty
    /\ Sent(last.ops, "delete") >= 3
    /\ RomeGroup(store, <<"1", 0>>) = {LegacyPoint("1", 0, 0)}
    /\ DuplicateGroups(store) # {}
    /\ Cardinality(RomeGroups(store))
          = (EpisodeScrollLimit \div SegmentSlots) + 2

\* the duplicate groups of st a cleanup of episode_numbers is about: all of
\* them for the empty list (None)
InScope(st, episode_numbers) ==
    {G \in DuplicateGroups(st) :
        \/ episode_numbers = <<>>
        \/ \E p \in G : p.payload.episode_number \in Range(episode_numbers)}

C29_CleanSucceedsOnlyAfterScan ==
    [][(CleanStep /\ last'.ok) =>
          /\ ~last'.faulty
          /\ InScope(store', last'.episodes) = {}]_vars

\* the groups a returned dict holds, each with the set of its ids
Reported(duplicates) ==
    {[key |-> duplicates.keys[i], ids |-> Range(duplicates.ids[duplicates.keys[i]])] :
        i \in 1..Len(duplicates.keys)}

\* this step is a --scan-duplicates in which no request raised
ScanSucceeded ==
    /\ run' = run + 1
    /\ last'.cmd = "scan-duplicates"
    /\ ~last'.faulty

DeleteEpisodesSucceeded ==
    /\ run' = run + 1
    /\ last'.cmd = "delete-episodes"
    /\ last'.ok

\* C13: after delete_episode_completely(E) returns True the store holds no
\* point with source_name 'history_of_rome' and episode_number in E, however
\* many points an episode had, and the points of other episodes and other
\* sources are as they were.
C13_DeletesEveryPointOfTheEpisodes ==
    [][DeleteEpisodesSucceeded =>
          store' = {p \in store :
                       ~(/\ p.payload.source_name = RomeSourceName
                         /\ p.payload.episode_number \in Range(last'.episodes))}]_vars

(***************************************************************************)
(* Properties of the History of Rome pipeline (checked under SpecRome)     *)
(***************************************************************************)
\* a forced run that ran to its end with no failed external call
CleanForcedRun(entry) ==
    entry.cmd = "process" /\ entry.force /\ entry.complete /\ entry.clean

\* C1: a forced process_all_episodes run directly after another one over the
\* same sources, every fetch, embedding and store call succeeding, leaves
\* the store with the same set of point identifiers, and so the same point
\* count, as the first: the second run adds no point.
C1_ForcedRerunAddsNoPoint ==
    \A i \in 1..(Len(runLog) - 1) :
        (CleanForcedRun(runLog[i]) /\ CleanForcedRun(runLog[i + 1])) =>
            /\ runLog[i + 1].ids = runLog[i].ids
            /\ Cardinality(runLog[i + 1].ids) = Cardinality(runLog[i].ids)

\* two forced runs in a row have each uploaded both episodes, one of them
\* in more than one chunk, into a collection holding another source's point
C1_Witness ==
    /\ Len(runLog) = 2
    /\ CleanForcedRun(runLog[1]) /\ CleanForcedRun(runLog[2])
    /\ stats.success = Len(RomeEpisodes)
    /\ Cardinality(runLog[1].ids) > Len(RomeEpisodes) + 1
    /\ ForeignPoint \in store

\* the confirmation text a purge command with these arguments expects
ExpectedConfirmation(args) ==
    IF Dispatch(args) = "delete-all-rome" THEN "DELETE ALL ROME"
    ELSE "DELETE " \o upper(args[Index(args, "--delete-podcast") + 2])

\* this step is a purge command that got as far as its confirmation prompt
PurgePrompted ==
    /\ run' = run + 1
    /\ last'.cmd \in {"delete-all-rome", "delete-podcast"}
    /\ last'.prompted

\* C10: in --delete-all-rome and --delete-podcast NAME, when the typed
\* confirmation is not exactly the expected text, no request is sent to the
\* store, no point is deleted, the command reports cancellation and
\* delete_all_podcast_data is not called.
C10_MismatchCancelsPurge ==
    [][(PurgePrompted /\ last'.typed # ExpectedConfirmation(last'.args)) =>
          /\ store' = store
          /\ last'.ops = <<>>
          /\ last'.cancelled
          /\ last'.purged = ""]_vars

\* --delete-all-rome was answered in lower case while History of Rome points
\* were stored, and was cancelled
C10_Witness ==
    /\ last.cmd = "delete-all-rome"
    /\ last.prompted /\ last.typed = "delete all rome"
    /\ last.cancelled
    /\ \E p \in store : p.payload.source_name = RomeSourceName

\* this step is a purge command in which delete_all_podcast_data was called
\* and returned True
PurgeSucceeded ==
    /\ run' = run + 1
    /\ last'.cmd \in {"delete-all-rome", "delete-podcast"}
    /\ last'.purged # ""
    /\ last'.ok

\* C14: after delete_all_podcast_data(name) returns True no point with
\* source_name = name remains in the store and every point with another
\* source_name is as it was, whether the pages came from the filtered
\* scroll or from the unfiltered scroll filtered locally.
C14_PurgeRemovesExactlyThePodcast ==
    [][PurgeSucceeded =>
          store' = {p \in store : p.payload.source_name # last'.purged}]_vars

\* History of Rome was purged through the unfiltered scroll (two requests
\* per page) over several pages and delete batches, and the point of the
\* other podcast is still stored
C14_Witness ==
    /\ last.cmd = "delete-all-rome"
    /\ last.purged = RomeSourceName /\ last.ok
    /\ Sent(last.ops, "delete") >= 2
    /\ Sent(last.ops, "scroll") = 2 * Sent(last.ops, "delete")
    /\ store = {ForeignPoint}

(***************************************************************************)
(* Cleanup followed by re-ingestion: a collection that holds segments of   *)
(* the two episodes under ids of an earlier scheme as well, --clean-       *)
(* duplicates, and runs of process_all_episodes over the same documents    *)
(***************************************************************************)
\* every stored segment is chunk 0 of a one-chunk episode
RecoverDocs == <<HeaderDoc, HeaderDoc>>

\* episode 1 under its uuid5 id and under a random uuid that sorts before
\* it; the same with a random uuid that sorts after it; episode 1 under two
\* random uuids only; episode 2 under two random uuids only
RecoverStores ==
    {{CurrentPoint("1", 0), LegacyPoint("1", 0, 0), CurrentPoint("2", 0)},
     {CurrentPoint("1", 0), LegacyPoint("1", 0, 3), CurrentPoint("2", 0)},
     {LegacyPoint("1", 0, 1), LegacyPoint("1", 0, 3), ForeignPoint},
     {CurrentPoint("1", 0), LegacyPoint("2", 0, 0), LegacyPoint("2", 0, 1)}}

\* what a --clean-duplicates in which nothing raises makes of such a store
Recovered(st) == clean_duplicate_episodes(st, 0, <<>>, FALSE, -1)

\* the state in which main() --clean-duplicates has returned with success
\* on a store that held duplicate groups
RecoverInit ==
    /\ variant = "rome"
    /\ docs = RecoverDocs
    /\ \E st \in RecoverStores :
          \E r \in {Recovered(st)} :
              /\ store = r.store
              /\ clock = r.clock
              /\ last = [NoReport EXCEPT !.cmd = "clean-duplicates",
                                         !.args = <<"--clean-duplicates">>,
                                         !.ok = r.ok, !.ops = r.ops]
    /\ run = 1 /\ epi = 0
    /\ stats = [total |-> 0, success |-> 0, failed |-> 0]
    /\ ppc = "idle" /\ force = FALSE /\ processed_episodes = {}
    /\ failures = 0 /\ issued = {}
    /\ runLog = <<>>
    /\ text = Plain(0) /\ start = 0 /\ chunk_index = 0 /\ chunks = <<>>
    /\ pc = "none" /\ windows = <<>> /\ iters = 0

RecoverNext ==
    \/ Rome_CleanDuplicates
    \/ Rome_StartRun
    \/ Rome_ProcessEpisode
    \/ Rome_EndRun

SpecRecover == RecoverInit /\ [][RecoverNext]_vars

\* the store holds a duplicate group
HoldsDuplicates == DuplicateGroups(store) # {}

\* a forced run has just ended in which every episode was ingested
Reingested ==
    /\ ppc = "idle" /\ last.cmd = "process"
    /\ Len(runLog) > 0
    /\ runLog[Len(runLog)].complete /\ runLog[Len(runLog)].force
    /\ stats.success = stats.total

\* C27: after clean_duplicate_episodes has succeeded on a store that held
\* duplicate groups, a later forced re-ingestion of the same unchanged
\* sources leaves the store with no duplicate group (the copy the cleanup
\* kept is the one that re-ingestion overwrites).
C27_ReingestionAfterCleanupMakesNoDuplicate ==
    Reingested => ~HoldsDuplicates

(***************************************************************************)
(* Re-ingestion of documents that are edited between runs                  *)
(***************************************************************************)
\* episode 1 with 202 chunks and with one chunk
OriginalDocs == <<Plain(1001), HeaderDoc>>

EditedDocs == <<HeaderDoc, HeaderDoc>>

ReingestInit ==
    /\ variant = "rome"
    /\ docs \in {OriginalDocs, EditedDocs}
    /\ store = {ForeignPoint}
    /\ clock = 0 /\ run = 0 /\ epi = 0
    /\ stats = [total |-> 0, success |-> 0, failed |-> 0]
    /\ ppc = "idle" /\ force = FALSE /\ processed_episodes = {}
    /\ failures = 0 /\ issued = {}
    /\ last = NoReport
    /\ runLog = <<>>
    /\ text = Plain(0) /\ start = 0 /\ chunk_index = 0 /\ chunks = <<>>
    /\ pc = "none" /\ windows = <<>> /\ iters = 0

\* between two runs the Google Doc of episode 1 is edited: what
\* get_google_doc_content returns for it from now on is the other text
Source_Edit ==
    /\ variant = "rome" /\ ppc = "idle" /\ run < MaxRuns
    /\ docs' = IF docs = OriginalDocs THEN EditedDocs ELSE OriginalDocs
    /\ last' = [NoReport EXCEPT !.cmd = "edit"]
    /\ UNCHANGED <<store, clock, run, epi, stats, ppc, force, processed_episodes,
                   failures, issued, runLog>>
    /\ UNCHANGED chunkVars

ReingestNext ==
    \/ Source_Edit
    \/ Rome_StartRun
    \/ Rome_ProcessEpisode
    \/ Rome_EndRun

SpecReingest == ReingestInit /\ [][ReingestNext]_vars

\* the points stored for episode i of the metadata list
StoredOf(i) ==
    {p \in store : /\ p.payload.source_name = RomeSourceName
                   /\ p.payload.episode_number = RomeEpisodes[i].episode_number}

\* C30: after a forced re-ingestion has completed successfully, the stored
\* points of each source are exactly the segments of its current text:
\* every stored point's total_chunks equals the number of points stored for
\* the source, also when an earlier run produced more segments.
C30_ReingestionLeavesCurrentSegments ==
    Reingested =>
        \A i \in 1..Len(RomeEpisodes) :
            \A n \in {Cardinality(StoredOf(i))} :
                /\ n = Len(Rome_create_text_chunks(extract_transcript_text(docs[i])))
                /\ \A p \in StoredOf(i) : p.payload.total_chunks = n

(***************************************************************************)
(* Ingestion of documents with little or no text (History of Rome and      *)
(* process_revolutions.py)                                                 *)
(***************************************************************************)
\* mutant: the text of the document is returned as it is
get_google_doc_content_Unstripped(document) == document

\* the text runs of the document joined, then content.strip()
get_google_doc_content(document) ==
    SubText(document, Strip(document, 0, document.len))

\* documents, as the text of their runs
EmptyDoc == Plain(0)
BlankDoc == [len |-> 150, ch |-> Blanks(0, 150)]
\* a header and blanks after it
HeaderOnlyDoc ==
    [len |-> 56,
     ch |-> Place(HeaderDelimiter, 0) @@ Place(HeaderDelimiter, 50) @@ Blanks(53, 3)]
\* a header, blanks, then 300 letters
PaddedHeaderDoc ==
    [len |-> 400,
     ch |-> Place(HeaderDelimiter, 0) @@ Place(HeaderDelimiter, 50) @@ Blanks(53, 47)]
\* 160 letters between blanks
PaddedDoc == [len |-> 200, ch |-> Blanks(0, 20) @@ Blanks(180, 20)]
\* letters, 1500 blanks, letters: a whole window of the chunker is blank
GappedDoc == [len |-> 3000, ch |-> Blanks(700, 1500)]

IngestDocuments ==
    {<<EmptyDoc, PaddedDoc>>, <<BlankDoc, HeaderOnlyDoc>>, <<PaddedHeaderDoc, BlankDoc>>,
     <<GappedDoc, Plain(50)>>, <<HeaderOnlyDoc, GappedDoc>>}

IngestInit ==
    /\ variant \in {"rome", "rev"}
    /\ \E documents \in IngestDocuments :
          docs = [i \in 1..Len(documents) |-> get_google_doc_content(documents[i])]
    /\ store = {} /\ clock = 0 /\ run = 0 /\ epi = 0
    /\ stats = [total |-> 0, success |-> 0, failed |-> 0]
    /\ ppc = "idle" /\ force = FALSE /\ processed_episodes = {}
    /\ failures = 0 /\ issued = {}
    /\ last = IF variant = "rome" THEN NoReport
              ELSE [episode |-> <<>>, ok |-> FALSE, n |-> 0, truncated |-> FALSE]
    /\ runLog = <<>>
    /\ text = Plain(0) /\ start = 0 /\ chunk_index = 0 /\ chunks = <<>>
    /\ pc = "none" /\ windows = <<>> /\ iters = 0

IngestNext ==
    \/ Rome_StartRun
    \/ Rome_ProcessEpisode
    \/ Rome_EndRun
    \/ StartRun
    \/ Rev_ProcessEpisode
    \/ EndRun

SpecIngest == IngestInit /\ [][IngestNext]_vars

\* nothing of t remains after t.strip()
Blank(t) == SliceLen(Strip(t, 0, t.len)) = 0

\* this step is the processing of the source whose document is fetched as
\* content: the call returned and was tallied
IngestStep(content) ==
    /\ ppc = "running"
    /\ epi' = epi + 1
    /\ content = docs[epi + 1]

\* the chunks the chunker of the variant returns for transcript
ChunksOf(transcript) ==
    IF variant = "rome" THEN Rome_create_text_chunks(transcript)
    ELSE Rev_chunk_text(transcript)

\* C17: if the transcript extracted from a source is empty or whitespace
\* only, the ingestion of the source fails: no segment is produced, the
\* embedding service is not called and nothing is written to the store; and
\* no segment the chunker emits for a source is empty after trimming.
C17_BlankTranscriptFails ==
    [][\A content \in {docs[i] : i \in 1..Len(docs)} :
          IngestStep(content) =>
             \A transcript \in {extract_transcript_text(content)} :
                 /\ Blank(transcript) =>
                       /\ ~last'.ok /\ last'.n = 0
                       /\ stats'.failed = stats.failed + 1
                       /\ store' = store /\ issued' = issued
                       /\ variant = "rome" =>
                             /\ Sent(last'.ops, "embeddings") = 0
                             /\ Sent(last'.ops, "upsert") = 0
                 /\ last'.n > 0 =>
                       \A cs \in {ChunksOf(transcript)} :
                           /\ last'.n = Len(cs)
                           /\ \A k \in 1..Len(cs) :
                                 SliceLen(Strip(transcript, cs[k].content[1],
                                                cs[k].content[2])) > 0]_vars

\* both sources of a run have been tallied as failed, the documents being
\* one of blanks only and one of a header with nothing after it, and nothing
\* was stored
C17_Witness ==
    /\ epi = 2 /\ stats.failed = 2 /\ failures = 0
    /\ docs[1].len = 0 /\ docs[2].len > 0
    /\ Blank(extract_transcript_text(docs[2]))
    /\ ~last.ok /\ last.n = 0
    /\ store = {}

=============================================================================
